---- MODULE Spec2Model ----
(***************************************************************************)
(* GitGuard: the push-event handlers of internal/handler and their         *)
(* predecessors of internal/app.                                           *)
(*                                                                         *)
(* One webhook delivery is handed to one handler instance:                 *)
(*   "secret"        handler.SecretScanHandler: one check run per commit   *)
(*   "full"          handler.FullRepoScanHandler: one repository scan per  *)
(*                   push to the default branch, reported as an issue      *)
(*   "commit"        app.CommitHandler with gitleaks.Detector, the         *)
(*                   refactored predecessor of SecretScanHandler           *)
(*   "commit_legacy" app.CommitHandler of internal/app/handlers.go, the    *)
(*                   first version of the commit scan                      *)
(* GitHub, the git clone and the gitleaks detector are the environment:    *)
(* every outbound call is one step whose outcome (success with a value, or *)
(* an error) is chosen by the environment.                                 *)
(*                                                                         *)
(* Errors are modelled as the chain of their wrapped messages, outermost   *)
(* first; the empty chain is a nil error.                                  *)
(***************************************************************************)
EXTENDS Integers, Sequences, FiniteSets, TLC

VARIABLES
    secretDetector,   \* SecretScanHandler.detector: "nil" or "set"
    fullDetector,     \* FullRepoScanHandler.detector: "nil" or "set"
    handler,          \* handler the delivery went to, "none" before the delivery
    payload,          \* the payload of the delivery
    event,            \* the github.PushEvent parsed from the payload (NoEvent before)
    pc,               \* position of the running Handle call
    handleErr,        \* error returned by Handle (meaningful when pc = "done")
    logs,             \* log messages emitted by Handle that name a decision
    idx,              \* index of the commit the loop of Handle is at
    checkRunID,       \* scanCommit: id returned by createCheckRun
    comparison,       \* scanCommit: comparison.Files
    fileIdx,          \* scanCommit: index of the file the scan loop is at
    allFindings,      \* scanCommit / scanFullRepository: findings so far
    filesScanned,     \* scanCommit: files passed to the detector
    scanResult,       \* CommitHandler.scanCommit: the result of Detector.ScanCommit
    gitRepo,          \* scanFullRepository: the repository cloned into memory
    calls,            \* GitHub calls issued by the scanCommit in progress (or the last one)
    commitRec,        \* per commit of the push: what scanCommit did and returned
    checkRuns,        \* GitHub: the check runs, by id
    issues,           \* GitHub: the open issues of the repository
    writes,           \* number of GitHub API writes issued by this delivery
    deadlineExceeded, \* the full-scan context has passed its deadline
    ctxCancelled      \* the request context Handle was called with has been cancelled

vars == <<secretDetector, fullDetector, handler, payload, event, pc, handleErr, logs,
          idx, checkRunID, comparison, fileIdx, allFindings, filesScanned, scanResult,
          gitRepo, calls, commitRec, checkRuns, issues, writes, deadlineExceeded,
          ctxCancelled>>

-----------------------------------------------------------------------------
(* Bounds of the model *)

MaxCommits == 2   \* commits in one push
MaxFiles == 2     \* files in one comparison
MaxFindings == 2  \* findings handed to a report builder

-----------------------------------------------------------------------------
(* internal/constants *)

MaxFileChanges == 1000
EmptyTreeSHA == "4b825dc642cb6eb9a060e54bf8d69288fbee4904"
BranchRefPrefix == "refs/heads/"
FileStatusRemoved == "removed"

StatusInProgress == "in_progress"
StatusCompleted == "completed"
ConclusionSuccess == "success"
ConclusionFailure == "failure"

CheckRunTitleInProgress == "GitGuard Secret Scan"
CheckRunTitleError == "GitGuard Secret Scan - Error"
CheckRunTitleClean == "GitGuard Secret Scan - Clean"
CheckRunTitleSecrets == "GitGuard Secret Scan - Secrets Detected"

CheckRunSummaryInProgress == "Scanning commit for secrets and sensitive information..."
CheckRunSummaryError == "Failed to scan commit for secrets. Please try again."
CheckRunSummaryClean == "No secrets or sensitive information detected in this commit."
\* fmt.Sprintf(constants.CheckRunSummarySecrets, n)
CheckRunSummarySecrets(n) ==
    "**" \o ToString(n) \o " secret(s) detected** in this commit. Please review and remove sensitive information."
CheckRunSummaryTypes == "\n\n**Types of secrets found:**\n"

ErrCreateGitleaksConfig == "failed to create gitleaks config"
ErrUnmarshalPushEvent == "failed to unmarshal push event"
ErrCreateGitHubClient == "failed to create GitHub client"
ErrGetCommitDiff == "failed to get commit diff"
ErrCreateCheckRun == "failed to create check run"
ErrUpdateCheckRun == "failed to update check run"

\* internal/app
ErrFailedToCreateClient == "failed to create installation client"
ErrFailedToScanCommit == "failed to scan commit with gitleaks"

IssueTitle == "GitGuard: Secrets Detected in Repository"
IssueLabel == "security"

ErrCloneRepository == "failed to clone repository"
ErrScanRepository == "failed to scan repository"
ErrCreateIssue == "failed to create issue"
ErrGetDefaultBranch == "failed to get default branch"
ErrInvalidCloneURL == "invalid clone URL"
ErrScanTimeout == "repository scan timed out"
ErrGetInstallationToken == "failed to get installation token"

LogMsgSkippingEvent == "Skipping event - no commits or not a branch push"
LogMsgSkippingNonDefault == "Skipping event - not a push to default branch"
LogMsgProcessingCommits == "Processing commits for secret scanning"
LogMsgStartingFullScan == "Starting full repository scan"
LogMsgFullScanComplete == "Full repository scan completed"
LogMsgNoSecretsFound == "No secrets found in full repository scan"

-----------------------------------------------------------------------------
(* Errors *)

NoError == <<>>

\* an error returned by the environment (GitHub, git, gitleaks)
ApiError == <<"api error">>

\* fmt.Errorf(msg + ": %w", err)
Wrap(msg, err) == <<msg>> \o err

Range(s) == { s[i] : i \in 1..Len(s) }

\* the message of err contains msg
ErrContains(err, msg) == msg \in Range(err)

-----------------------------------------------------------------------------
(* strings *)

\* strings.HasPrefix
HasPrefix(s, prefix) ==
    /\ Len(s) >= Len(prefix)
    /\ SubSeq(s, 1, Len(prefix)) = prefix

\* strings.Contains
Contains(s, sub) ==
    \E i \in 1..(Len(s) - Len(sub) + 1) : SubSeq(s, i, i + Len(sub) - 1) = sub

\* strings.HasSuffix
HasSuffix(s, suffix) ==
    /\ Len(s) >= Len(suffix)
    /\ SubSeq(s, Len(s) - Len(suffix) + 1, Len(s)) = suffix

\* strings.TrimPrefix
TrimPrefix(s, prefix) ==
    IF HasPrefix(s, prefix) THEN SubSeq(s, Len(prefix) + 1, Len(s)) ELSE s

-----------------------------------------------------------------------------
(* The environment: payloads, comparisons, file contents, detector output *)

Refs == {"", "main", "refs/heads/main", "refs/tags/v1.0.0", "refs/pull/123/head"}

DefaultBranches == {"main", "Main"}

\* the ids of the commits of a push, in the order GitHub reports them
CommitIDs == <<"c1", "c2", "c3", "c4">>

\* github.HeadCommit: a push webhook names a commit by its id; sha is filled only
\* in payloads that carry it
HeadCommit(id, withSHA) == [id |-> id, sha |-> IF withSHA THEN id ELSE ""]

CommitLists ==
    { [i \in 1..n |-> HeadCommit(CommitIDs[i], withSHA)] :
        n \in 0..MaxCommits, withSHA \in BOOLEAN }

\* a payload json.Unmarshal rejects
MalformedPayload == [valid |-> FALSE, ref |-> "", defaultBranch |-> "", commits |-> <<>>]

Events == [valid : {TRUE}, ref : Refs, defaultBranch : DefaultBranches,
           commits : CommitLists]

Payloads == Events \cup {MalformedPayload}

NoEvent == MalformedPayload

\* github.CommitFile
FileStatuses == {"modified", "removed"}
FileChanges == {MaxFileChanges, MaxFileChanges + 1}
FileNames == <<"f1", "f2", "f3", "f4">>

\* the file lists a comparison may return: file i is named FileNames[i]
FileLists ==
    UNION { { [i \in 1..n |-> [filename |-> FileNames[i], status |-> st[i], changes |-> ch[i]]] :
                st \in [1..n -> FileStatuses], ch \in [1..n -> FileChanges] } :
            n \in 0..MaxFiles }

\* decoded file contents
Contents == {"", "clean", "anon", "leaky"}

\* gitleaks.ScanResult: the nil pointer, before Detector.ScanCommit has returned
NilScanResult == [nil |-> TRUE, HasLeaks |-> FALSE, LeakCount |-> 0, LeakSummary |-> <<>>]

\* gitRepo before git.CloneContext has returned
NoRepository == [head |-> FALSE, files |-> <<>>]

\* variant of LeakSummaryPrefix with another bullet
LeakSummaryPrefixStar == "* "

\* internal/gitleaks
LeakSummaryPrefix == "- "

\* report.Finding
Finding(rule, line, secret) ==
    [RuleID |-> rule, File |-> "", StartLine |-> line, Secret |-> secret]

\* the rules of the detector of the running handler: the handlers of internal/handler
\* extend the default configuration, gitleaks.NewDetector is given an empty config.Config
DetectorRules ==
    IF handler \in {"commit", "commit_legacy"} THEN "none" ELSE "default"

\* detect.Detector.DetectString: deterministic in the rules and the text
DetectString(rules, content) ==
    IF rules = "none" THEN << >>
    ELSE CASE content = "anon"  -> << Finding("", 0, "s3cr3t") >>
           [] content = "leaky" -> << Finding("aws-access-key", 1, "AKIA1"),
                                      Finding("generic-api-key", 7, "k3y") >>
           [] OTHER             -> << >>

\* outcomes of getFileContent: GetContents fails, GetContent fails to decode, or a text
FetchOutcomes ==
    {[err |-> Wrap("get contents", ApiError), content |-> ""],
     [err |-> <<"decode error">>, content |-> ""]}
    \cup { [err |-> NoError, content |-> c] : c \in Contents }

-----------------------------------------------------------------------------
(* Event filter *)

\* variant of ShouldSkipEvent without the test of the ref prefix
ShouldSkipEventNoCommitsOnly(ev) ==
    Len(ev.commits) = 0

\* SecretScanHandler.Handle / FullRepoScanHandler.Handle: no commits or not a branch push
ShouldSkipEvent(ev) ==
    Len(ev.commits) = 0 \/ ~HasPrefix(ev.ref, BranchRefPrefix)

UpperCaseLetters == "ABCDEFGHIJKLMNOPQRSTUVWXYZ"
LowerCaseLetters == "abcdefghijklmnopqrstuvwxyz"

\* the lower-case letter of every upper-case letter
LowerCaseOf ==
    [c \in { SubSeq(UpperCaseLetters, i, i) : i \in 1..Len(UpperCaseLetters) } |->
        LET i == CHOOSE j \in 1..Len(UpperCaseLetters) : SubSeq(UpperCaseLetters, j, j) = c
        IN  SubSeq(LowerCaseLetters, i, i)]

\* unicode.ToLower of one character of a file or branch name
ToLowerChar(c) == IF c \in DOMAIN LowerCaseOf THEN LowerCaseOf[c] ELSE c

RECURSIVE ToLower(_)
\* strings.ToLower
ToLower(s) ==
    IF s = "" THEN ""
    ELSE ToLowerChar(SubSeq(s, 1, 1)) \o ToLower(SubSeq(s, 2, Len(s)))

\* variant of IsNonDefaultBranch comparing the names as strings.EqualFold would
IsNonDefaultBranchFold(ev) ==
    ToLower(ev.defaultBranch) # ToLower(TrimPrefix(ev.ref, BranchRefPrefix))

\* variant of IsNonDefaultBranch comparing the default branch with the whole ref
IsNonDefaultBranchFullRef(ev) ==
    ev.defaultBranch # ev.ref

\* FullRepoScanHandler.Handle: the pushed branch is not the default branch
IsNonDefaultBranch(ev) ==
    ev.defaultBranch # TrimPrefix(ev.ref, BranchRefPrefix)

\* the reference predicate of the branch-filtering tests
calculateShouldSkip(ref, defaultBranch, ncommits) ==
    LET shouldSkipNoCommits == ncommits = 0 \/ ~HasPrefix(ref, BranchRefPrefix)
        pushedBranch == TrimPrefix(ref, BranchRefPrefix)
        shouldSkipNonDefault == defaultBranch # pushedBranch
    IN  shouldSkipNoCommits \/ shouldSkipNonDefault

-----------------------------------------------------------------------------
(* GitHub calls, as recorded in calls: the request and whether it succeeded *)

CreateCheckRunCall(sha, ok) ==
    [op |-> "CreateCheckRun", sha |-> sha, status |-> StatusInProgress,
     title |-> CheckRunTitleInProgress, summary |-> CheckRunSummaryInProgress,
     ok |-> ok]

CompareCommitsCall(base, head, ok) ==
    [op |-> "CompareCommits", base |-> base, head |-> head, ok |-> ok]

\* ok: GetContents and the decoding succeeded; content: the decoded text ("" otherwise)
GetContentsCall(filename, ref, out) ==
    [op |-> "GetContents", path |-> filename, ref |-> ref, ok |-> out.err = NoError,
     content |-> out.content]

UpdateCheckRunCall(id, out, ok) ==
    [op |-> "UpdateCheckRun", id |-> id, status |-> StatusCompleted,
     conclusion |-> out.conclusion, title |-> out.title, summary |-> out.summary,
     ok |-> ok]

CallsOf(log, op) == { i \in 1..Len(log) : log[i].op = op }

-----------------------------------------------------------------------------
(* State after construction: main builds the handlers without a detector *)

Init ==
    /\ secretDetector = "nil"
    /\ fullDetector = "nil"
    /\ handler = "none"
    /\ payload = NoEvent
    /\ event = NoEvent
    /\ pc = "idle"
    /\ handleErr = NoError
    /\ logs = {}
    /\ idx = 0
    /\ checkRunID = 0
    /\ comparison = <<>>
    /\ fileIdx = 0
    /\ allFindings = <<>>
    /\ filesScanned = 0
    /\ scanResult = NilScanResult
    /\ gitRepo = NoRepository
    /\ calls = <<>>
    /\ commitRec = <<>>
    /\ checkRuns = <<>>
    /\ issues = <<>>
    /\ writes = 0
    /\ deadlineExceeded = FALSE
    /\ ctxCancelled = FALSE

\* what scanCommit does not touch
scanFrame == <<secretDetector, fullDetector, handler, payload, event, handleErr, logs,
               issues, deadlineExceeded, ctxCancelled, gitRepo>>

\* the event dispatcher hands a push delivery to a handler
Deliver ==
    /\ pc = "idle"
    /\ \E h \in {"secret", "full", "commit", "commit_legacy"}, p \in Payloads :
          /\ handler' = h
          /\ payload' = p
          /\ pc' = CASE h = "secret" -> "secret_handle"
                      [] h = "full"   -> "full_handle"
                      [] OTHER        -> "commit_handle"
    /\ UNCHANGED <<secretDetector, fullDetector, event, handleErr, logs, idx, checkRunID,
                   comparison, fileIdx, allFindings, filesScanned, calls, commitRec,
                   checkRuns, issues, writes, deadlineExceeded, ctxCancelled, scanResult, gitRepo>>

\* Handle returns err
Return(err) ==
    /\ pc' = "done"
    /\ handleErr' = err

\* nothing has happened yet for the commits of the push
NoCommitRecs(ev) ==
    [i \in 1..Len(ev.commits) |->
        [commit |-> ev.commits[i].id, state |-> "START", checkRun |-> 0,
         updates |-> 0, updateErr |-> NoError, err |-> NoError]]

-----------------------------------------------------------------------------
(* SecretScanHandler.Handle, up to the commit loop *)

SecretHandle ==
    /\ pc = "secret_handle"
    /\ UNCHANGED <<fullDetector, handler, payload, checkRunID, comparison, fileIdx,
                   allFindings, filesScanned, calls, checkRuns, issues, writes,
                   deadlineExceeded, ctxCancelled, scanResult, gitRepo>>
    /\ \E initOK \in BOOLEAN, clientOK \in BOOLEAN :
          IF secretDetector = "nil" /\ ~initOK
          THEN \* viperConfig.Translate failed
               /\ Return(Wrap(ErrCreateGitleaksConfig, ApiError))
               /\ UNCHANGED <<secretDetector, event, logs, idx, commitRec>>
          ELSE /\ secretDetector' = "set"
               /\ IF ~payload.valid
                  THEN /\ Return(Wrap(ErrUnmarshalPushEvent, ApiError))
                       /\ UNCHANGED <<event, logs, idx, commitRec>>
                  ELSE /\ event' = payload
                       /\ IF ShouldSkipEvent(payload)
                          THEN /\ Return(NoError)
                               /\ logs' = logs \cup {LogMsgSkippingEvent}
                               /\ UNCHANGED <<idx, commitRec>>
                          ELSE IF ~clientOK
                          THEN \* NewInstallationClient failed
                               /\ Return(Wrap(ErrCreateGitHubClient, ApiError))
                               /\ UNCHANGED <<logs, idx, commitRec>>
                          ELSE /\ pc' = "commit_loop"
                               /\ handleErr' = NoError
                               /\ logs' = logs \cup {LogMsgProcessingCommits}
                               /\ idx' = 1
                               /\ commitRec' = NoCommitRecs(payload)

-----------------------------------------------------------------------------
(* app.CommitHandler.Handle, up to the commit loop; the detector was built by  *)
(* NewCommitHandler                                                            *)

CommitHandle ==
    /\ pc = "commit_handle"
    /\ UNCHANGED <<secretDetector, fullDetector, handler, payload, checkRunID, comparison,
                   fileIdx, allFindings, filesScanned, calls, checkRuns, issues, writes,
                   deadlineExceeded, ctxCancelled, scanResult, gitRepo>>
    /\ \E clientOK \in BOOLEAN :
          IF ~payload.valid
          THEN /\ Return(Wrap(ErrUnmarshalPushEvent, ApiError))
               /\ UNCHANGED <<event, logs, idx, commitRec>>
          ELSE /\ event' = payload
               /\ IF ShouldSkipEvent(payload)
                  THEN /\ Return(NoError)
                       /\ UNCHANGED <<logs, idx, commitRec>>
                  ELSE \* the refactored Handle logs before processCommits
                       /\ logs' = IF handler = "commit"
                                  THEN logs \cup {LogMsgProcessingCommits} ELSE logs
                       /\ IF ~clientOK
                          THEN \* NewInstallationClient failed
                               /\ Return(Wrap(ErrFailedToCreateClient, ApiError))
                               /\ UNCHANGED <<idx, commitRec>>
                          ELSE /\ pc' = "commit_loop"
                               /\ handleErr' = NoError
                               /\ idx' = 1
                               /\ commitRec' = NoCommitRecs(payload)

-----------------------------------------------------------------------------
(* The commit loop of Handle and scanCommit, of SecretScanHandler and of      *)
(* CommitHandler                                                              *)

\* the SHA the loop passes to scanCommit: GetID() of the i-th commit of the event,
\* GetSHA() in the first version of CommitHandler
CommitSHA(i) ==
    IF handler = "commit_legacy" THEN event.commits[i].sha ELSE event.commits[i].id

\* the first version of CommitHandler passes over a commit without SHA
SkipsCommit(i) == handler = "commit_legacy" /\ event.commits[i].sha = ""

\* the error scanCommit returns when the diff cannot be obtained
DiffError ==
    IF handler = "secret" THEN Wrap(ErrGetCommitDiff, ApiError)
    ELSE Wrap(ErrFailedToScanCommit, Wrap(ErrGetCommitDiff, ApiError))

\* variant of AfterScanCommit leaving the loop at the first scanCommit error
AfterScanCommitStopOnError(i, err) ==
    IF err # NoError THEN Len(event.commits) + 1 ELSE i + 1

\* Handle: the loop goes on with the next commit whatever scanCommit returned
AfterScanCommit(i, err) == i + 1

\* scanCommit returns err, leaving the commit in a terminal state; log is the
\* calls it issued
ScanCommitReturn(state, log, err) ==
    /\ commitRec' = [commitRec EXCEPT ![idx] =
                        [@ EXCEPT !.state = state,
                                  !.updates = Cardinality(CallsOf(log, "UpdateCheckRun")),
                                  !.updateErr = IF \E k \in CallsOf(log, "UpdateCheckRun") : ~log[k].ok
                                                THEN ApiError ELSE NoError,
                                  !.err = err]]
    /\ idx' = AfterScanCommit(idx, err)
    /\ pc' = "commit_loop"

\* variant of CreateCheckRunFailed going on to the diff without a check run
CreateCheckRunFailedGoesOn ==
    /\ pc' = "diff_parent"
    /\ checkRunID' = 0
    /\ UNCHANGED <<idx, commitRec, checkRuns>>

\* the context the outbound calls are made with is done: the request was cancelled, or
\* the deadline of the full scan has passed
ContextDone == ctxCancelled \/ deadlineExceeded

\* variant of CallMayReturn for a call made without the context
CallMayReturnWithoutContext(ok) == TRUE

\* the answers an outbound call made with the context can give: once the context is
\* done the call returns the context's error
CallMayReturn(ok) == ok => ~ContextDone

\* scanCommit: createCheckRun failed
CreateCheckRunFailed ==
    /\ ScanCommitReturn("ABORT", calls', Wrap(ErrCreateCheckRun, ApiError))
    /\ UNCHANGED <<checkRunID, checkRuns>>

\* scanCommit, first step: createCheckRun
CreateCheckRun ==
    /\ pc = "commit_loop"
    /\ idx <= Len(event.commits)
    /\ ~SkipsCommit(idx)
    /\ writes' = writes + 1
    /\ \/ /\ CallMayReturn(TRUE)
          /\ calls' = << CreateCheckRunCall(CommitSHA(idx), TRUE) >>
          /\ checkRuns' = Append(checkRuns, [head_sha |-> CommitSHA(idx),
                                             status |-> StatusInProgress,
                                             conclusion |-> ""])
          /\ checkRunID' = Len(checkRuns) + 1
          /\ commitRec' = [commitRec EXCEPT ![idx].state = "PENDING",
                                            ![idx].checkRun = Len(checkRuns) + 1]
          /\ pc' = "diff_parent"
          /\ UNCHANGED idx
       \/ /\ calls' = << CreateCheckRunCall(CommitSHA(idx), FALSE) >>
          /\ CreateCheckRunFailed
    \* the locals of scanCommit are fresh in every call
    /\ comparison' = <<>>
    /\ fileIdx' = 0
    /\ allFindings' = <<>>
    /\ filesScanned' = 0
    /\ scanResult' = NilScanResult
    /\ UNCHANGED scanFrame

\* CommitHandler.Handle, first version: a commit without SHA is not scanned
SkipCommit ==
    /\ pc = "commit_loop"
    /\ idx <= Len(event.commits)
    /\ SkipsCommit(idx)
    /\ commitRec' = [commitRec EXCEPT ![idx].state = "SKIPPED"]
    /\ idx' = idx + 1
    /\ UNCHANGED <<pc, checkRunID, comparison, fileIdx, allFindings, filesScanned, calls,
                   checkRuns, writes>>
    /\ UNCHANGED <<scanFrame, scanResult>>

\* variant of HandleLoopExit that returns the error of the last commit
HandleLoopExitWithLastError ==
    /\ pc = "commit_loop"
    /\ idx > Len(event.commits)
    /\ Return(commitRec[Len(commitRec)].err)
    /\ UNCHANGED <<secretDetector, fullDetector, handler, payload, event, logs, issues,
                   deadlineExceeded, ctxCancelled, scanResult, gitRepo, idx, checkRunID,
                   comparison, fileIdx, allFindings, filesScanned, calls, commitRec,
                   checkRuns, writes>>

\* Handle: the loop is over
HandleLoopExit ==
    /\ pc = "commit_loop"
    /\ idx > Len(event.commits)
    /\ Return(NoError)
    /\ UNCHANGED <<secretDetector, fullDetector, handler, payload, event, logs, issues,
                   deadlineExceeded, ctxCancelled, scanResult, gitRepo, idx, checkRunID, comparison, fileIdx, allFindings,
                   filesScanned, calls, commitRec, checkRuns, writes>>

\* getCommitDiff: the base of the first comparison
ParentBase(sha) == sha \o "~1"

\* scanCommit: the comparison is there, the file loop starts
StartFileLoop(files) ==
    /\ comparison' = files
    /\ fileIdx' = 1
    /\ allFindings' = <<>>
    /\ filesScanned' = 0
    /\ pc' = "scan_files"

\* variant of ParentCompareFailed giving up without the empty-tree comparison
ParentCompareFailedNoFallback ==
    /\ pc' = "update_error"
    /\ UNCHANGED <<comparison, fileIdx, allFindings, filesScanned>>

\* getCommitDiff: the comparison with the previous commit failed
ParentCompareFailed ==
    /\ pc' = "diff_empty"
    /\ UNCHANGED <<comparison, fileIdx, allFindings, filesScanned>>

\* getCommitDiff: diff with the previous commit
CompareParent ==
    /\ pc = "diff_parent"
    /\ \/ /\ CallMayReturn(TRUE)
          /\ calls' = Append(calls, CompareCommitsCall(ParentBase(CommitSHA(idx)),
                                                       CommitSHA(idx), TRUE))
          /\ \E files \in FileLists : StartFileLoop(files)
       \/ /\ calls' = Append(calls, CompareCommitsCall(ParentBase(CommitSHA(idx)),
                                                       CommitSHA(idx), FALSE))
          /\ ParentCompareFailed
    /\ UNCHANGED <<idx, checkRunID, commitRec, checkRuns, writes>>
    /\ UNCHANGED <<scanFrame, scanResult>>

\* variant of CommitDiffFailed returning the error without updating the check run
CommitDiffFailedNoUpdate ==
    ScanCommitReturn("ERRORED", calls', DiffError)

\* scanCommit: getCommitDiff returned an error
CommitDiffFailed ==
    /\ pc' = "update_error"
    /\ UNCHANGED <<idx, commitRec>>

\* getCommitDiff: for initial commits, compare with the empty tree
CompareEmptyTree ==
    /\ pc = "diff_empty"
    /\ \/ /\ CallMayReturn(TRUE)
          /\ calls' = Append(calls, CompareCommitsCall(EmptyTreeSHA, CommitSHA(idx), TRUE))
          /\ \E files \in FileLists : StartFileLoop(files)
          /\ UNCHANGED <<idx, commitRec>>
       \/ /\ calls' = Append(calls, CompareCommitsCall(EmptyTreeSHA, CommitSHA(idx), FALSE))
          /\ CommitDiffFailed
          /\ UNCHANGED <<comparison, fileIdx, allFindings, filesScanned>>
    /\ UNCHANGED <<checkRunID, checkRuns, writes>>
    /\ UNCHANGED <<scanFrame, scanResult>>

RECURSIVE ApplyUpdatesToEveryRun(_, _)
\* variant of ApplyUpdates in which an update reaches every check run of the push
ApplyUpdatesToEveryRun(runs, log) ==
    IF log = <<>> THEN runs
    ELSE LET c == Head(log)
             applied == IF c.ok
                        THEN [i \in DOMAIN runs |->
                                 [runs[i] EXCEPT !.status = c.status,
                                                 !.conclusion = c.conclusion]]
                        ELSE runs
         IN  ApplyUpdatesToEveryRun(applied, Tail(log))

\* GitHub applies the UpdateCheckRun calls of log that succeeded
RECURSIVE ApplyUpdates(_, _)
ApplyUpdates(runs, log) ==
    IF log = <<>> THEN runs
    ELSE LET c == Head(log)
             applied == IF c.ok /\ c.id \in DOMAIN runs
                        THEN [runs EXCEPT ![c.id] =
                                 [@ EXCEPT !.status = c.status, !.conclusion = c.conclusion]]
                        ELSE runs
         IN  ApplyUpdates(applied, Tail(log))

\* updateCheckRunWithError: the generic error output
ErrorOutput ==
    [conclusion |-> ConclusionFailure, title |-> CheckRunTitleError,
     summary |-> CheckRunSummaryError]

\* updateCheckRunWithError: the update calls it issues, ok being what GitHub answers
ErrorUpdateCalls(ok) == << UpdateCheckRunCall(checkRunID, ErrorOutput, ok) >>

\* updateCheckRunWithError (a failed update is logged only), and the return of
\* scanCommit that follows it
UpdateCheckRunWithError ==
    /\ pc = "update_error"
    /\ \E ok \in BOOLEAN :
          /\ CallMayReturn(ok)
          /\ calls' = calls \o ErrorUpdateCalls(ok)
          /\ writes' = writes + Len(ErrorUpdateCalls(ok))
          /\ checkRuns' = ApplyUpdates(checkRuns, ErrorUpdateCalls(ok))
    /\ ScanCommitReturn("ERRORED", calls', DiffError)
    /\ UNCHANGED <<checkRunID, comparison, fileIdx, allFindings, filesScanned>>
    /\ UNCHANGED <<scanFrame, scanResult>>

\* variant of shouldSkipFile that looks at the change count only
shouldSkipFileLargeOnly(file) ==
    file.changes > MaxFileChanges

\* variant of shouldSkipFile with the ceiling exclusive
shouldSkipFileAtCeiling(file) ==
    file.status = FileStatusRemoved \/ file.changes >= MaxFileChanges

\* shouldSkipFile
shouldSkipFile(file) ==
    file.status = FileStatusRemoved \/ file.changes > MaxFileChanges

\* variant of SkipsContent that passes an empty content to the detector
SkipsContentOnErrorOnly(out) == out.err # NoError

\* the scan loop passes over a file whose content could not be fetched or decoded, or
\* is empty
SkipsContent(out) == out.err # NoError \/ out.content = ""

\* scanCommit: one round of the loop over comparison.Files
ScanFile ==
    /\ pc = "scan_files"
    /\ fileIdx <= Len(comparison)
    /\ LET file == comparison[fileIdx] IN
          IF shouldSkipFile(file)
          THEN UNCHANGED <<calls, allFindings, filesScanned>>
          ELSE \E out \in FetchOutcomes :
                  /\ CallMayReturn(out.err # Wrap("get contents", ApiError))
                  /\ calls' = Append(calls, GetContentsCall(file.filename, CommitSHA(idx), out))
                  /\ IF SkipsContent(out)
                     THEN UNCHANGED <<allFindings, filesScanned>>
                     ELSE /\ allFindings' = allFindings \o
                                             DetectString(DetectorRules, out.content)
                          /\ filesScanned' = filesScanned + 1
    /\ fileIdx' = fileIdx + 1
    /\ UNCHANGED <<pc, idx, checkRunID, comparison, commitRec, checkRuns, writes>>
    /\ UNCHANGED <<scanFrame, scanResult>>

\* variant of LeakTypes that keeps the empty rule id
LeakTypesWithEmpty(findings) ==
    { findings[i].RuleID : i \in 1..Len(findings) }

\* the rule ids a summary lists: the keys of the leakTypes map
LeakTypes(findings) ==
    { findings[i].RuleID : i \in 1..Len(findings) } \ {""}

\* the orders in which a range over a Go map may visit the keys S
Orders(S) ==
    { o \in [1..Cardinality(S) -> S] : \A i, j \in 1..Cardinality(S) : o[i] = o[j] => i = j }

RECURSIVE TypeLines(_)
\* SecretScanHandler: "- " + leakType + "\n" for each leak type, in the order visited
TypeLines(order) ==
    IF order = <<>> THEN ""
    ELSE "- " \o Head(order) \o "\n" \o TypeLines(Tail(order))

\* variant of buildScanResult with one summary entry per finding that has a rule id
buildScanResultPerFinding(findings, order) ==
    LET withRule == SelectSeq(findings, LAMBDA f : f.RuleID # "") IN
    [nil |-> FALSE,
     HasLeaks |-> Len(findings) > 0,
     LeakCount |-> Len(findings),
     LeakSummary |-> [i \in 1..Len(withRule) |-> LeakSummaryPrefix \o withRule[i].RuleID]]

\* Detector.buildScanResult, the leak types being visited in the order given
buildScanResult(findings, order) ==
    [nil |-> FALSE,
     HasLeaks |-> Len(findings) > 0,
     LeakCount |-> Len(findings),
     LeakSummary |-> [i \in 1..Len(order) |-> LeakSummaryPrefix \o order[i]]]

RECURSIVE StringsJoin(_, _)
\* strings.Join
StringsJoin(elems, sep) ==
    IF elems = <<>> THEN ""
    ELSE IF Len(elems) = 1 THEN Head(elems)
    ELSE Head(elems) \o sep \o StringsJoin(Tail(elems), sep)

\* variant of buildCheckRunOutput that takes an empty leak summary for a clean scan
buildCheckRunOutputBySummary(result) ==
    IF Len(result.LeakSummary) = 0
    THEN [conclusion |-> ConclusionSuccess, title |-> CheckRunTitleClean,
          summary |-> CheckRunSummaryClean]
    ELSE [conclusion |-> ConclusionFailure, title |-> CheckRunTitleSecrets,
          summary |-> CheckRunSummarySecrets(result.LeakCount) \o
                      CheckRunSummaryTypes \o StringsJoin(result.LeakSummary, "\n")]

\* CommitHandler.buildCheckRunOutput
buildCheckRunOutput(result) ==
    IF ~result.HasLeaks
    THEN [conclusion |-> ConclusionSuccess, title |-> CheckRunTitleClean,
          summary |-> CheckRunSummaryClean]
    ELSE [conclusion |-> ConclusionFailure, title |-> CheckRunTitleSecrets,
          summary |-> CheckRunSummarySecrets(result.LeakCount) \o
                      (IF Len(result.LeakSummary) > 0
                       THEN CheckRunSummaryTypes \o StringsJoin(result.LeakSummary, "\n")
                       ELSE "")]

\* SecretScanHandler.updateCheckRunWithResults: conclusion, title and summary
secretResultsOutput(findings, order) ==
    IF Len(findings) = 0
    THEN [conclusion |-> ConclusionSuccess, title |-> CheckRunTitleClean,
          summary |-> CheckRunSummaryClean]
    ELSE [conclusion |-> ConclusionFailure, title |-> CheckRunTitleSecrets,
          summary |-> CheckRunSummarySecrets(Len(findings)) \o
                      (IF Len(order) > 0
                       THEN CheckRunSummaryTypes \o TypeLines(order)
                       ELSE "")]

\* the output of the results update of the running handler, the leak types being
\* visited in the order given
ResultsOutput(findings, order) ==
    IF handler = "secret"
    THEN secretResultsOutput(findings, order)
    ELSE buildCheckRunOutput(buildScanResult(findings, order))

\* variant of ResultsUpdateCalls falling back to the error update when the update fails
ResultsUpdateThenError(out, ok) ==
    IF ok THEN << UpdateCheckRunCall(checkRunID, out, TRUE) >>
    ELSE << UpdateCheckRunCall(checkRunID, out, FALSE),
            UpdateCheckRunCall(checkRunID, ErrorOutput, TRUE) >>

\* variant of ResultsUpdateCalls that sends a failed update once more
ResultsUpdateRetried(out, ok) ==
    IF ok THEN << UpdateCheckRunCall(checkRunID, out, TRUE) >>
    ELSE << UpdateCheckRunCall(checkRunID, out, FALSE),
            UpdateCheckRunCall(checkRunID, out, TRUE) >>

\* updateCheckRunWithResults: the update calls it issues, ok being what GitHub answers
ResultsUpdateCalls(out, ok) == << UpdateCheckRunCall(checkRunID, out, ok) >>

\* updateCheckRunWithResults, whose result scanCommit returns
UpdateCheckRunWithResults ==
    /\ pc = "scan_files"
    /\ fileIdx > Len(comparison)
    /\ \E order \in Orders(LeakTypes(allFindings)), ok \in BOOLEAN :
          LET out == ResultsOutput(allFindings, order) IN
          /\ CallMayReturn(ok)
          /\ calls' = calls \o ResultsUpdateCalls(out, ok)
          /\ writes' = writes + Len(ResultsUpdateCalls(out, ok))
          /\ checkRuns' = ApplyUpdates(checkRuns, ResultsUpdateCalls(out, ok))
          /\ ScanCommitReturn("DONE", calls',
                              IF ok THEN NoError ELSE Wrap(ErrUpdateCheckRun, ApiError))
          /\ scanResult' = IF handler = "secret" THEN scanResult
                           ELSE buildScanResult(allFindings, order)
    /\ UNCHANGED <<checkRunID, comparison, fileIdx, allFindings, filesScanned>>
    /\ UNCHANGED scanFrame

-----------------------------------------------------------------------------
(* FullRepoScanHandler *)

\* findExistingSecurityIssue: page size of the issue listing
PerPage == 10

\* buildIssueBody: the key of ruleGroups a finding is appended to
RuleGroupKey(finding) == IF finding.RuleID = "" THEN "unknown" ELSE finding.RuleID

\* buildIssueBody: the keys of ruleGroups
RuleGroupKeys(findings) == { RuleGroupKey(findings[i]) : i \in 1..Len(findings) }

\* buildIssueBody: ruleGroups[key]
RuleGroup(findings, key) == SelectSeq(findings, LAMBDA f : RuleGroupKey(f) = key)

\* the back quote of a Markdown code span, which a string of the model cannot hold
BackQuote == "'"

\* fmt.Sprintf("- **%s**: %d occurrence(s)\n", ruleID, len(ruleFindings))
RuleLine(ruleID, n) == "- **" \o ruleID \o "**: " \o ToString(n) \o " occurrence(s)\n"

\* variant of FileLine that quotes the matched secret
FileLineWithSecret(finding) ==
    "- " \o BackQuote \o (IF finding.File = "" THEN "unknown file" ELSE finding.File) \o
    BackQuote \o " (line " \o ToString(finding.StartLine) \o "): " \o finding.Secret \o "\n"

\* fmt.Sprintf of "- 'filename' (line StartLine)\n", filename in back quotes
FileLine(finding) ==
    "- " \o BackQuote \o (IF finding.File = "" THEN "unknown file" ELSE finding.File) \o
    BackQuote \o " (line " \o ToString(finding.StartLine) \o ")\n"

IssueHeader ==
    << "## Security Alert: Secrets Detected\n\n",
       "GitGuard has detected potential secrets in your repository during a full scan. ",
       "Please review these findings and take appropriate action.\n\n" >>

\* fmt.Sprintf("**Total findings:** %d\n\n", len(findings))
TotalLine(n) == "**Total findings:** " \o ToString(n) \o "\n\n"

RuleSectionTitle == "### Detected Secret Types\n\n"
FileSectionTitle == "\n### File Locations\n\n"

IssueFooter ==
    << "\n### Recommended Actions\n\n",
       "1. **Immediately rotate** any exposed credentials\n",
       "2. **Remove secrets** from the repository history\n",
       "3. **Use environment variables** or secure secret management\n",
       "4. **Add secrets to .gitignore** to prevent future commits\n",
       "5. **Review commit history** for other potential exposures\n\n",
       "### Important Notes\n\n",
       "- This issue was created automatically by GitGuard\n",
       "- Secrets may be visible in commit history even after removal\n",
       "- Consider using tools like 'git filter-branch' or 'BFG Repo-Cleaner' for history cleanup\n" >>

\* variant of buildIssueBody that lists the file locations rule group by rule group
buildIssueBodyGrouped(findings, order) ==
    LET grouped[i \in 0..Len(order)] ==
            IF i = 0 THEN <<>> ELSE grouped[i - 1] \o RuleGroup(findings, order[i])
    IN  IssueHeader \o << TotalLine(Len(findings)) >> \o
        << RuleSectionTitle >> \o
        [i \in 1..Len(order) |-> RuleLine(order[i], Len(RuleGroup(findings, order[i])))] \o
        << FileSectionTitle >> \o
        [i \in 1..Len(findings) |-> FileLine(grouped[Len(order)][i])] \o
        IssueFooter

\* variant of buildIssueBody whose rule section counts the rule IDs, not the occurrences
buildIssueBodyCountingRules(findings, order) ==
    IssueHeader \o << TotalLine(Len(findings)) >> \o
    << RuleSectionTitle >> \o
    [i \in 1..Len(order) |-> RuleLine(order[i], 1)] \o
    << FileSectionTitle >> \o
    [i \in 1..Len(findings) |-> FileLine(findings[i])] \o
    IssueFooter

\* buildIssueBody: the strings appended to body, in the order they are appended, the
\* keys of ruleGroups being visited in the order given
buildIssueBody(findings, order) ==
    IssueHeader \o << TotalLine(Len(findings)) >> \o
    << RuleSectionTitle >> \o
    [i \in 1..Len(order) |-> RuleLine(order[i], Len(RuleGroup(findings, order[i])))] \o
    << FileSectionTitle >> \o
    [i \in 1..Len(findings) |-> FileLine(findings[i])] \o
    IssueFooter

\* the github.IssueRequest of createSecurityIssue, and whether Issues.Create succeeded
IssuesCreateCall(body, ok) ==
    [op |-> "Issues.Create", title |-> IssueTitle, body |-> body, labels |-> {IssueLabel},
     ok |-> ok]

\* open issues the repository holds before the delivery (their bodies do not matter)
SecurityIssue == [title |-> IssueTitle, labels |-> {IssueLabel}, body |-> <<>>]
OtherIssue == [title |-> "rotate the staging keys", labels |-> {IssueLabel}, body |-> <<>>]

\* an open issue whose title is the fixed one but for the case of its letters
NearIssue == [title |-> "gitguard: secrets detected in repository", labels |-> {IssueLabel},
              body |-> <<>>]

\* the security issue of an earlier scan, with PerPage issues labelled "security"
\* opened after it
OlderSecurityIssue == [i \in 1..PerPage |-> OtherIssue] \o <<SecurityIssue>>

\* the open issues a repository may hold when the delivery arrives, newest first
InitialIssues ==
    { <<>>, <<OtherIssue>>, <<NearIssue>>, <<OtherIssue, SecurityIssue>>,
      OlderSecurityIssue }

\* findings of a tree scan: scanGitRepository fills in the file name
WithFile(findings, name) ==
    [i \in 1..Len(findings) |-> [findings[i] EXCEPT !.File = name]]

\* internal/handler: file extensions that are passed over during the tree scan
binaryExtensions ==
    << ".jpg", ".jpeg", ".png", ".gif", ".bmp", ".ico", ".svg",
       ".pdf", ".doc", ".docx", ".xls", ".xlsx", ".ppt", ".pptx",
       ".zip", ".tar", ".gz", ".bz2", ".7z", ".rar",
       ".exe", ".dll", ".so", ".dylib",
       ".mp3", ".mp4", ".avi", ".mov", ".wmv",
       ".woff", ".woff2", ".ttf", ".eot" >>

\* internal/handler: directory paths that are passed over during the tree scan
skipPaths ==
    << "node_modules/", "vendor/", ".git/", "dist/", "build/",
       "target/", "bin/", "obj/", ".gradle/", "__pycache__/" >>

\* object.File of a cloned tree: its name, its size in bytes, and what file.Contents()
\* returns when it is called
TreeFile(name, size, err, content) ==
    [Name |-> name, Size |-> size, contents |-> [err |-> err, content |-> content]]

\* the error of a blob that cannot be read
ReadError == <<"object not found">>

\* variant of the tree scan's shouldSkipFile that folds the case of the skip paths too
fullShouldSkipFileFoldPaths(file) ==
    \/ file.Size > MaxFileChanges
    \/ LET lower == ToLower(file.Name)
       IN  \E i \in DOMAIN binaryExtensions : HasSuffix(lower, binaryExtensions[i])
    \/ LET lower == ToLower(file.Name)
       IN  \E i \in DOMAIN skipPaths : Contains(lower, skipPaths[i])

\* FullRepoScanHandler.shouldSkipFile
fullShouldSkipFile(file) ==
    \/ file.Size > MaxFileChanges
    \/ LET lower == ToLower(file.Name)
       IN  \E i \in DOMAIN binaryExtensions : HasSuffix(lower, binaryExtensions[i])
    \/ \E i \in DOMAIN skipPaths : Contains(file.Name, skipPaths[i])

\* shouldSkipFileLogic of the tests
shouldSkipFileLogic(filename, size) ==
    IF size > MaxFileChanges THEN TRUE
    ELSE IF LET lower == ToLower(filename)
            IN  \E i \in DOMAIN binaryExtensions : HasSuffix(lower, binaryExtensions[i])
         THEN TRUE
    ELSE IF \E i \in DOMAIN skipPaths : Contains(filename, skipPaths[i]) THEN TRUE
    ELSE FALSE

\* file.Contents() as recorded in calls: ok when the content was read, and then handed
\* to DetectString
FileContentsCall(file) ==
    [op |-> "File.Contents", path |-> file.Name, ok |-> file.contents.err = NoError,
     content |-> file.contents.content]

RECURSIVE ForEachFileTolerant(_, _, _)
\* variant of ForEachFile that passes over a file whose content cannot be read
ForEachFileTolerant(files, i, acc) ==
    IF i > Len(files)
    THEN [err |-> NoError, findings |-> acc.findings, reads |-> acc.reads]
    ELSE LET file == files[i] IN
         IF fullShouldSkipFile(file) THEN ForEachFileTolerant(files, i + 1, acc)
         ELSE IF file.contents.err # NoError
         THEN ForEachFileTolerant(files, i + 1,
                  [findings |-> acc.findings,
                   reads |-> Append(acc.reads, FileContentsCall(file))])
         ELSE ForEachFileTolerant(files, i + 1,
                  [findings |-> acc.findings \o
                                WithFile(DetectString("default", file.contents.content),
                                         file.Name),
                   reads |-> Append(acc.reads, FileContentsCall(file))])

RECURSIVE ForEachFile(_, _, _)
\* scanGitRepository: tree.Files().ForEach from file i on, acc holding allFindings and
\* the contents read so far; the walk stops at the first error of the callback
ForEachFile(files, i, acc) ==
    IF i > Len(files)
    THEN [err |-> NoError, findings |-> acc.findings, reads |-> acc.reads]
    ELSE LET file == files[i] IN
         IF fullShouldSkipFile(file) THEN ForEachFile(files, i + 1, acc)
         ELSE IF file.contents.err # NoError
         THEN [err |-> Wrap("failed to read file contents", file.contents.err),
               findings |-> acc.findings,
               reads |-> Append(acc.reads, FileContentsCall(file))]
         ELSE ForEachFile(files, i + 1,
                  [findings |-> acc.findings \o
                                WithFile(DetectString("default", file.contents.content),
                                         file.Name),
                   reads |-> Append(acc.reads, FileContentsCall(file))])

\* scanGitRepository: the findings and the error it returns, and the contents it read
scanGitRepository(repo) ==
    IF ~repo.head
    THEN [findings |-> <<>>, err |-> Wrap("failed to get head reference", ApiError),
          reads |-> <<>>]
    ELSE LET walk == ForEachFile(repo.files, 1, [findings |-> <<>>, reads |-> <<>>])
         IN  IF walk.err # NoError
             THEN [findings |-> <<>>,
                   err |-> Wrap("failed to scan repository files", walk.err),
                   reads |-> walk.reads]
             ELSE [findings |-> walk.findings, err |-> NoError, reads |-> walk.reads]

\* the repositories git.CloneContext may hand back: head tells whether the head
\* reference, its commit and its tree resolve; files is the tree in walking order
ClonedRepositories ==
    { [head |-> FALSE, files |-> <<>>],
      [head |-> TRUE, files |-> << TreeFile("README.md", 100, NoError, "clean") >>],
      [head |-> TRUE, files |-> << TreeFile("config/app.yml", 100, NoError, "anon") >>],
      [head |-> TRUE, files |-> << TreeFile("main.go", MaxFileChanges, NoError, "leaky"),
                                   TreeFile("deploy.sh", 100, NoError, "leaky") >>],
      [head |-> TRUE, files |-> << TreeFile("main.go", 100, NoError, "leaky"),
                                   TreeFile("secrets.env", 100, ReadError, ""),
                                   TreeFile("deploy.sh", 100, NoError, "leaky") >>],
      [head |-> TRUE, files |-> << TreeFile("IMAGE.JPG", 100, NoError, "leaky"),
                                   TreeFile("vendor/lib.go", 100, ReadError, ""),
                                   TreeFile("big.txt", MaxFileChanges + 1, NoError, "leaky"),
                                   TreeFile("Node_Modules/x.js", 100, NoError, "anon") >>] }

\* the trees a walk is followed on
TreeNames == {"main.go", "IMAGE.JPG", "Node_Modules/x.js", "src/node_modules/x.js"}
TreeSizes == {MaxFileChanges, MaxFileChanges + 1}
TreeContents == {[err |-> ReadError, content |-> ""], [err |-> NoError, content |-> "leaky"],
                 [err |-> NoError, content |-> "clean"]}

\* object.File
TreeFiles == [Name : TreeNames, Size : TreeSizes, contents : TreeContents]

\* the trees of up to MaxFiles files, no two of the same name
Trees ==
    UNION { { t \in [1..n -> TreeFiles] :
                \A i, j \in 1..n : t[i].Name = t[j].Name => i = j } : n \in 0..MaxFiles }

\* scanGitRepository on every repository a scan may be handed
TreeScanOf ==
    [repo \in ClonedRepositories \cup { [head |-> TRUE, files |-> t] : t \in Trees } |->
        scanGitRepository(repo)]

\* the position is inside scanFullRepository
InFullScan ==
    pc \in {"full_get_repo", "full_token", "full_clone", "full_scan",
            "full_find_issue", "full_create_issue"}

\* variant of FullScanReturn that looks at the deadline only
FullScanReturnOnDeadline(err) ==
    IF deadlineExceeded
    THEN Return(<<ErrScanTimeout>>)
    ELSE Return(err)

\* Handle: the error of scanFullRepository, turned into the time-out error
\* when the scan context has passed its deadline
FullScanReturn(err) ==
    IF err # NoError /\ deadlineExceeded
    THEN Return(<<ErrScanTimeout>>)
    ELSE Return(err)

\* a call made with the scan context fails once the deadline has passed or the request
\* context, its parent, is cancelled
CallSucceeds(ok) == ok /\ ~ContextDone

fullLocals == <<idx, checkRunID, comparison, fileIdx, filesScanned, commitRec, checkRuns>>

\* FullRepoScanHandler.Handle, up to the call of scanFullRepository
FullHandle ==
    /\ pc = "full_handle"
    /\ UNCHANGED <<secretDetector, handler, payload, allFindings, calls, writes,
                   deadlineExceeded, ctxCancelled, scanResult, gitRepo>>
    /\ UNCHANGED fullLocals
    /\ \E initOK \in BOOLEAN, clientOK \in BOOLEAN, open \in InitialIssues :
          IF fullDetector = "nil" /\ ~initOK
          THEN \* initializeDetector failed
               /\ Return(Wrap(ErrCreateGitleaksConfig, ApiError))
               /\ UNCHANGED <<fullDetector, event, logs, issues>>
          ELSE /\ fullDetector' = "set"
               /\ IF ~payload.valid
                  THEN /\ Return(Wrap(ErrUnmarshalPushEvent, ApiError))
                       /\ UNCHANGED <<event, logs, issues>>
                  ELSE /\ event' = payload
                       /\ IF ShouldSkipEvent(payload)
                          THEN /\ Return(NoError)
                               /\ logs' = logs \cup {LogMsgSkippingEvent}
                               /\ UNCHANGED issues
                          ELSE IF IsNonDefaultBranch(payload)
                          THEN /\ Return(NoError)
                               /\ logs' = logs \cup {LogMsgSkippingNonDefault}
                               /\ UNCHANGED issues
                          ELSE IF ~clientOK
                          THEN \* createGitHubClient failed
                               /\ Return(Wrap(ErrCreateGitHubClient, ApiError))
                               /\ UNCHANGED <<logs, issues>>
                          ELSE /\ pc' = "full_get_repo"
                               /\ handleErr' = NoError
                               /\ logs' = logs \cup {LogMsgStartingFullScan}
                               /\ issues' = open

\* the deadline of context.WithTimeout(ctx, FullScanTimeout) passes
DeadlinePasses ==
    /\ InFullScan
    /\ ~ContextDone
    /\ deadlineExceeded' = TRUE
    /\ UNCHANGED <<secretDetector, fullDetector, handler, payload, event, pc, handleErr,
                   logs, allFindings, scanResult, gitRepo, calls, issues, writes,
                   ctxCancelled>>
    /\ UNCHANGED fullLocals

fullFrame == <<secretDetector, fullDetector, handler, payload, event, logs,
               deadlineExceeded, ctxCancelled, scanResult>>

\* scanFullRepository: client.Repositories.Get and the clone URL check
GetRepository ==
    /\ pc = "full_get_repo"
    /\ \E ok \in BOOLEAN, cloneURL \in {"", "https://github.com/o/r.git"} :
          /\ calls' = Append(calls, [op |-> "Repositories.Get", ok |-> CallSucceeds(ok)])
          /\ IF ~CallSucceeds(ok)
             THEN FullScanReturn(Wrap(ErrGetDefaultBranch, ApiError))
             ELSE IF cloneURL = ""
             THEN FullScanReturn(<<ErrInvalidCloneURL>>)
             ELSE pc' = "full_token" /\ UNCHANGED handleErr
    /\ UNCHANGED <<allFindings, issues, writes, gitRepo>>
    /\ UNCHANGED fullFrame
    /\ UNCHANGED fullLocals

\* scanFullRepository: getInstallationToken
GetInstallationToken ==
    /\ pc = "full_token"
    /\ \E ok \in BOOLEAN :
          /\ calls' = Append(calls, [op |-> "Apps.CreateInstallationToken",
                                     ok |-> CallSucceeds(ok)])
          /\ IF ~CallSucceeds(ok)
             THEN FullScanReturn(Wrap(ErrGetInstallationToken,
                                      Wrap("failed to create installation token", ApiError)))
             ELSE pc' = "full_clone" /\ UNCHANGED handleErr
    /\ UNCHANGED <<allFindings, issues, writes, gitRepo>>
    /\ UNCHANGED fullFrame
    /\ UNCHANGED fullLocals

\* variant of CloneRepository that goes on to the tree scan when the clone failed
CloneRepositoryGoesOn ==
    /\ pc = "full_clone"
    /\ \E ok \in BOOLEAN, repo \in ClonedRepositories :
          /\ calls' = Append(calls, [op |-> "git.CloneContext", ok |-> CallSucceeds(ok)])
          /\ pc' = "full_scan"
          /\ gitRepo' = repo
    /\ UNCHANGED <<handleErr, allFindings, issues, writes>>
    /\ UNCHANGED fullFrame
    /\ UNCHANGED fullLocals

\* scanFullRepository: git.CloneContext into memory
CloneRepository ==
    /\ pc = "full_clone"
    /\ \E ok \in BOOLEAN, repo \in ClonedRepositories :
          /\ calls' = Append(calls, [op |-> "git.CloneContext", ok |-> CallSucceeds(ok)])
          /\ IF ~CallSucceeds(ok)
             THEN FullScanReturn(Wrap(ErrCloneRepository, ApiError)) /\ UNCHANGED gitRepo
             ELSE pc' = "full_scan" /\ UNCHANGED handleErr /\ gitRepo' = repo
    /\ UNCHANGED <<allFindings, issues, writes>>
    /\ UNCHANGED fullFrame
    /\ UNCHANGED fullLocals

\* variant of ScanGitRepository that goes on to the report when nothing was found
ScanGitRepositoryReportsAlways ==
    /\ pc = "full_scan"
    /\ LET result == TreeScanOf[gitRepo] IN
          /\ calls' = calls \o result.reads
          /\ IF result.err # NoError
             THEN /\ FullScanReturn(Wrap(ErrScanRepository, result.err))
                  /\ UNCHANGED <<allFindings, logs>>
             ELSE /\ allFindings' = result.findings
                  /\ pc' = "full_find_issue"
                  /\ UNCHANGED handleErr
                  /\ logs' = logs \cup {LogMsgFullScanComplete}
    /\ UNCHANGED <<issues, writes, gitRepo>>
    /\ UNCHANGED <<secretDetector, fullDetector, handler, payload, event,
                   deadlineExceeded, ctxCancelled, scanResult>>
    /\ UNCHANGED fullLocals

\* scanFullRepository: scanGitRepository and the decision to report
ScanGitRepository ==
    /\ pc = "full_scan"
    /\ LET result == TreeScanOf[gitRepo] IN
          /\ calls' = calls \o result.reads
          /\ IF result.err # NoError
             THEN /\ FullScanReturn(Wrap(ErrScanRepository, result.err))
                  /\ UNCHANGED <<allFindings, logs>>
             ELSE /\ allFindings' = result.findings
                  /\ IF Len(result.findings) > 0
                     THEN /\ pc' = "full_find_issue"
                          /\ UNCHANGED handleErr
                          /\ logs' = logs \cup {LogMsgFullScanComplete}
                     ELSE /\ FullScanReturn(NoError)
                          /\ logs' = logs \cup {LogMsgFullScanComplete,
                                                 LogMsgNoSecretsFound}
    /\ UNCHANGED <<issues, writes, gitRepo>>
    /\ UNCHANGED <<secretDetector, fullDetector, handler, payload, event,
                   deadlineExceeded, ctxCancelled, scanResult>>
    /\ UNCHANGED fullLocals

\* GitHub: the open issues labelled label, newest first, first page
ListByRepo(label) ==
    LET labelled == SelectSeq(issues, LAMBDA i : label \in i.labels)
    IN  SubSeq(labelled, 1, IF Len(labelled) < PerPage THEN Len(labelled) ELSE PerPage)

\* variant of HasSecurityIssue that never finds the issue
HasSecurityIssueNever(listing) == FALSE

\* findExistingSecurityIssue: an issue of the listing has the fixed title
HasSecurityIssue(listing) ==
    \E i \in 1..Len(listing) : listing[i].title = IssueTitle

\* createSecurityIssue: findExistingSecurityIssue and the decision that follows
FindExistingSecurityIssue ==
    /\ pc = "full_find_issue"
    /\ \E ok \in BOOLEAN :
          /\ calls' = Append(calls, [op |-> "Issues.ListByRepo", ok |-> CallSucceeds(ok)])
          /\ IF ~CallSucceeds(ok)
             THEN pc' = "full_create_issue" /\ UNCHANGED handleErr  \* warned, goes on
             ELSE IF HasSecurityIssue(ListByRepo(IssueLabel))
             THEN FullScanReturn(NoError)
             ELSE pc' = "full_create_issue" /\ UNCHANGED handleErr
    /\ UNCHANGED <<allFindings, issues, writes, gitRepo>>
    /\ UNCHANGED fullFrame
    /\ UNCHANGED fullLocals

\* createSecurityIssue: client.Issues.Create
CreateIssue ==
    /\ pc = "full_create_issue"
    /\ writes' = writes + 1
    /\ \E ok \in BOOLEAN, order \in Orders(RuleGroupKeys(allFindings)) :
          LET body == buildIssueBody(allFindings, order) IN
          /\ calls' = Append(calls, IssuesCreateCall(body, CallSucceeds(ok)))
          /\ IF ~CallSucceeds(ok)
             THEN FullScanReturn(Wrap(ErrCreateIssue, ApiError)) /\ UNCHANGED issues
             ELSE /\ issues' = << [title |-> IssueTitle, labels |-> {IssueLabel},
                                    body |-> body] >> \o issues
                  /\ FullScanReturn(NoError)
    /\ UNCHANGED <<allFindings, gitRepo>>
    /\ UNCHANGED fullFrame
    /\ UNCHANGED fullLocals

FullNext ==
    \/ FullHandle
    \/ DeadlinePasses
    \/ GetRepository
    \/ GetInstallationToken
    \/ CloneRepository
    \/ ScanGitRepository
    \/ FindExistingSecurityIssue
    \/ CreateIssue

SecretNext ==
    \/ SecretHandle
    \/ CommitHandle
    \/ CreateCheckRun
    \/ SkipCommit
    \/ HandleLoopExit
    \/ CompareParent
    \/ CompareEmptyTree
    \/ UpdateCheckRunWithError
    \/ ScanFile
    \/ UpdateCheckRunWithResults

Next ==
    \/ Deliver
    \/ SecretNext
    \/ FullNext

Spec == Init /\ [][Next]_vars

-----------------------------------------------------------------------------
(* Cancellation: net/http cancels the context of a request whose client went away; *)
(* Handle passes that context, or the scan context derived from it, to every call  *)

\* the request context is cancelled while Handle runs
CancelRequest ==
    /\ pc \notin {"idle", "done"}
    /\ ~ContextDone
    /\ ctxCancelled' = TRUE
    /\ UNCHANGED <<secretDetector, fullDetector, handler, payload, event, pc, handleErr,
                   logs, allFindings, scanResult, gitRepo, calls, issues, writes,
                   deadlineExceeded>>
    /\ UNCHANGED fullLocals

CancelNext ==
    \/ Next
    \/ CancelRequest

\* the goroutine that runs Handle is scheduled, and every call it makes returns
CancelSpec ==
    Init /\ [][CancelNext]_vars /\ WF_vars(SecretNext) /\ WF_vars(FullNext)

-----------------------------------------------------------------------------
(* The running program: main builds one handler and hands it alone to              *)
(* githubapp.NewEventDispatcher, which routes every push delivery to it            *)

\* the handlers main registers with the dispatcher: SecretScanHandler in
\* cmd/gitguard/main.go, CommitHandler in the earlier entry points
RegisteredHandlers == {"secret", "commit", "commit_legacy"}

\* the dispatcher of the running program hands a verified push delivery to the handler
\* registered for push events
Dispatch ==
    /\ pc = "idle"
    /\ \E h \in RegisteredHandlers, p \in Payloads :
          /\ handler' = h
          /\ payload' = p
          /\ pc' = IF h = "secret" THEN "secret_handle" ELSE "commit_handle"
    /\ UNCHANGED <<secretDetector, fullDetector, event, handleErr, logs, idx, checkRunID,
                   comparison, fileIdx, allFindings, filesScanned, calls, commitRec,
                   checkRuns, issues, writes, deadlineExceeded, ctxCancelled, scanResult, gitRepo>>

ProgramNext ==
    \/ Dispatch
    \/ SecretNext

ProgramSpec == Init /\ [][ProgramNext]_vars

-----------------------------------------------------------------------------
(* The report builders on their own: updateCheckRunWithResults, buildScanResult with *)
(* buildCheckRunOutput, and buildIssueBody applied to any list of findings a        *)
(* gitleaks detector may hand them                                                  *)

RuleIDs == {"", "aws-access-key", "generic-api-key"}
FilePaths == {"", "main.go"}
StartLines == {-1, 0, 7}
Secrets == {"AKIA1", "k3y"}

\* report.Finding, the fields the handlers read and the matched secret
Findings == [RuleID : RuleIDs, File : FilePaths, StartLine : StartLines, Secret : Secrets]

FindingLists == UNION { [1..n -> Findings] : n \in 0..MaxFindings }

ReportInit ==
    /\ handler \in {"secret", "commit", "commit_legacy", "full"}
    /\ allFindings \in FindingLists
    /\ pc = "report"
    /\ secretDetector = "nil"
    /\ fullDetector = "nil"
    /\ payload = NoEvent
    /\ event = NoEvent
    /\ handleErr = NoError
    /\ logs = {}
    /\ idx = 0
    /\ checkRunID = 0
    /\ comparison = <<>>
    /\ fileIdx = 0
    /\ filesScanned = 0
    /\ scanResult = NilScanResult
    /\ gitRepo = NoRepository
    /\ calls = <<>>
    /\ commitRec = <<>>
    /\ checkRuns = <<>>
    /\ issues = <<>>
    /\ writes = 0
    /\ deadlineExceeded = FALSE
    /\ ctxCancelled = FALSE

reportFrame == <<secretDetector, fullDetector, handler, payload, event, handleErr, logs,
                 idx, checkRunID, comparison, fileIdx, allFindings, filesScanned,
                 commitRec, checkRuns, issues, writes, deadlineExceeded,
                 ctxCancelled, gitRepo>>

\* the results update a commit scan builds for the findings: the UpdateCheckRun request
\* and, in CommitHandler, the ScanResult it is built from
ReportCheckRun ==
    /\ pc = "report"
    /\ handler \in {"secret", "commit", "commit_legacy"}
    /\ \E order \in Orders(LeakTypes(allFindings)) :
          /\ calls' = ResultsUpdateCalls(ResultsOutput(allFindings, order), TRUE)
          /\ scanResult' = IF handler = "secret" THEN scanResult
                           ELSE buildScanResult(allFindings, order)
    /\ pc' = "reported"
    /\ UNCHANGED reportFrame

\* the issue request createSecurityIssue builds for the findings
ReportIssue ==
    /\ pc = "report"
    /\ handler = "full"
    /\ \E order \in Orders(RuleGroupKeys(allFindings)) :
          calls' = << IssuesCreateCall(buildIssueBody(allFindings, order), TRUE) >>
    /\ pc' = "reported"
    /\ UNCHANGED scanResult
    /\ UNCHANGED reportFrame

ReportNext ==
    \/ ReportCheckRun
    \/ ReportIssue

ReportSpec == ReportInit /\ [][ReportNext]_vars

-----------------------------------------------------------------------------
(* The tree scan on its own: scanFullRepository from scanGitRepository on, applied to *)
(* any tree of up to MaxFiles files that a clone may hold                            *)

\* the push whose full scan is under way
DefaultBranchPush ==
    [valid |-> TRUE, ref |-> "refs/heads/main", defaultBranch |-> "main",
     commits |-> << HeadCommit(CommitIDs[1], FALSE) >>]

\* scanFullRepository right after git.CloneContext has returned the repository
TreeInit ==
    /\ handler = "full"
    /\ gitRepo \in { [head |-> TRUE, files |-> t] : t \in Trees }
    /\ pc = "full_scan"
    /\ secretDetector = "nil"
    /\ fullDetector = "set"
    /\ payload = DefaultBranchPush
    /\ event = DefaultBranchPush
    /\ handleErr = NoError
    /\ logs = {LogMsgStartingFullScan}
    /\ idx = 0
    /\ checkRunID = 0
    /\ comparison = <<>>
    /\ fileIdx = 0
    /\ allFindings = <<>>
    /\ filesScanned = 0
    /\ scanResult = NilScanResult
    /\ calls = << [op |-> "Repositories.Get", ok |-> TRUE],
                  [op |-> "Apps.CreateInstallationToken", ok |-> TRUE],
                  [op |-> "git.CloneContext", ok |-> TRUE] >>
    /\ commitRec = <<>>
    /\ checkRuns = <<>>
    /\ issues = <<>>
    /\ writes = 0
    /\ deadlineExceeded = FALSE
    /\ ctxCancelled = FALSE

TreeNext ==
    \/ ScanGitRepository
    \/ FindExistingSecurityIssue
    \/ CreateIssue

TreeSpec == TreeInit /\ [][TreeNext]_vars

-----------------------------------------------------------------------------
(* Two deliveries served at once by one handler instance: net/http runs every      *)
(* request in a goroutine of its own and the dispatcher calls Handle in it. Only   *)
(* the accesses of Handle to the handler field detector are followed; in this      *)
(* specification pc, payload and handleErr hold one value per call.                *)

ConcurrentCalls == {1, 2}

\* the deliveries served: a malformed payload, a tag push, a push to the default branch
RacePayloads ==
    { MalformedPayload,
      [valid |-> TRUE, ref |-> "refs/tags/v1.0.0", defaultBranch |-> "main",
       commits |-> << HeadCommit(CommitIDs[1], FALSE) >>],
      DefaultBranchPush }

RaceInit ==
    /\ handler \in {"secret", "full"}
    /\ payload \in [ConcurrentCalls -> RacePayloads]
    /\ pc = [c \in ConcurrentCalls |-> "check"]
    /\ handleErr = [c \in ConcurrentCalls |-> NoError]
    /\ secretDetector = "nil"
    /\ fullDetector = "nil"
    /\ event = NoEvent
    /\ logs = {}
    /\ idx = 0
    /\ checkRunID = 0
    /\ comparison = <<>>
    /\ fileIdx = 0
    /\ allFindings = <<>>
    /\ filesScanned = 0
    /\ scanResult = NilScanResult
    /\ gitRepo = NoRepository
    /\ calls = <<>>
    /\ commitRec = <<>>
    /\ checkRuns = <<>>
    /\ issues = <<>>
    /\ writes = 0
    /\ deadlineExceeded = FALSE
    /\ ctxCancelled = FALSE

raceFrame == <<handler, payload, event, logs, idx, checkRunID, comparison, fileIdx,
               allFindings, filesScanned, scanResult, gitRepo, calls, commitRec,
               checkRuns, issues, writes, deadlineExceeded, ctxCancelled>>

\* h.detector of the handler instance
HandlerDetector == IF handler = "secret" THEN secretDetector ELSE fullDetector

\* Handle of call c returns err
RaceReturn(c, err) ==
    /\ pc' = [pc EXCEPT ![c] = "done"]
    /\ handleErr' = [handleErr EXCEPT ![c] = err]

\* Handle: the test h.detector == nil, a read of the field
RaceCheck(c) ==
    /\ pc[c] = "check"
    /\ pc' = [pc EXCEPT ![c] = IF HandlerDetector = "nil" THEN "init" ELSE "parse"]
    /\ UNCHANGED <<secretDetector, fullDetector, handleErr>>
    /\ UNCHANGED raceFrame

\* Handle: the detector is built (initializeDetector, or Translate and NewDetector)
RaceInitialize(c) ==
    /\ pc[c] = "init"
    /\ \E initOK \in BOOLEAN :
          IF initOK
          THEN pc' = [pc EXCEPT ![c] = "store"] /\ UNCHANGED handleErr
          ELSE RaceReturn(c, Wrap(ErrCreateGitleaksConfig, ApiError))
    /\ UNCHANGED <<secretDetector, fullDetector>>
    /\ UNCHANGED raceFrame

\* Handle: h.detector = detector, a write of the field
RaceStore(c) ==
    /\ pc[c] = "store"
    /\ secretDetector' = IF handler = "secret" THEN "set" ELSE secretDetector
    /\ fullDetector' = IF handler = "full" THEN "set" ELSE fullDetector
    /\ pc' = [pc EXCEPT ![c] = "parse"]
    /\ UNCHANGED handleErr
    /\ UNCHANGED raceFrame

\* Handle: the payload is parsed and the event filtered
RaceParse(c) ==
    /\ pc[c] = "parse"
    /\ IF ~payload[c].valid
       THEN RaceReturn(c, Wrap(ErrUnmarshalPushEvent, ApiError))
       ELSE IF ShouldSkipEvent(payload[c])
               \/ (handler = "full" /\ IsNonDefaultBranch(payload[c]))
       THEN RaceReturn(c, NoError)
       ELSE pc' = [pc EXCEPT ![c] = "scan"] /\ UNCHANGED handleErr
    /\ UNCHANGED <<secretDetector, fullDetector>>
    /\ UNCHANGED raceFrame

\* the scan: h.detector.DetectString(content), a read of the field
RaceScan(c) ==
    /\ pc[c] = "scan"
    /\ \E err \in {NoError, ApiError} : RaceReturn(c, err)
    /\ UNCHANGED <<secretDetector, fullDetector>>
    /\ UNCHANGED raceFrame

RaceNext ==
    \E c \in ConcurrentCalls :
        \/ RaceCheck(c)
        \/ RaceInitialize(c)
        \/ RaceStore(c)
        \/ RaceParse(c)
        \/ RaceScan(c)

RaceSpec == RaceInit /\ [][RaceNext]_vars

-----------------------------------------------------------------------------
(* Two full-repository scans of one repository at once: each has cloned and scanned  *)
(* the repository and has findings; what is followed is createSecurityIssue of each, *)
(* on the issues of the repository, which the two share. pc and handleErr hold one   *)
(* value per call.                                                                   *)

\* the findings of the scans: those of the repositories a clone may hand back
ScanFindings == { TreeScanOf[repo].findings : repo \in ClonedRepositories } \ {<<>>}

IssueRaceInit ==
    /\ handler = "full"
    /\ allFindings \in ScanFindings
    /\ issues \in {<<>>, <<OtherIssue>>, <<SecurityIssue>>}
    /\ pc = [c \in ConcurrentCalls |-> "full_find_issue"]
    /\ handleErr = [c \in ConcurrentCalls |-> NoError]
    /\ payload = [c \in ConcurrentCalls |-> DefaultBranchPush]
    /\ event = DefaultBranchPush
    /\ secretDetector = "nil"
    /\ fullDetector = "set"
    /\ logs = {LogMsgStartingFullScan, LogMsgFullScanComplete}
    /\ idx = 0
    /\ checkRunID = 0
    /\ comparison = <<>>
    /\ fileIdx = 0
    /\ filesScanned = 0
    /\ scanResult = NilScanResult
    /\ gitRepo = NoRepository
    /\ calls = <<>>
    /\ commitRec = <<>>
    /\ checkRuns = <<>>
    /\ writes = 0
    /\ deadlineExceeded = FALSE
    /\ ctxCancelled = FALSE

issueRaceFrame == <<secretDetector, fullDetector, handler, payload, event, logs, idx,
                    checkRunID, comparison, fileIdx, allFindings, filesScanned, scanResult,
                    gitRepo, commitRec, checkRuns, deadlineExceeded, ctxCancelled>>

\* the record of a call, with the Handle call that made it
CallBy(c, rec) ==
    [f \in DOMAIN rec \cup {"by"} |-> IF f = "by" THEN c ELSE rec[f]]

\* createSecurityIssue of call c: findExistingSecurityIssue and the decision that follows
RaceFindExistingSecurityIssue(c) ==
    /\ pc[c] = "full_find_issue"
    /\ \E ok \in BOOLEAN :
          /\ calls' = Append(calls, CallBy(c, [op |-> "Issues.ListByRepo", ok |-> ok]))
          /\ IF ok /\ HasSecurityIssue(ListByRepo(IssueLabel))
             THEN RaceReturn(c, NoError)
             ELSE pc' = [pc EXCEPT ![c] = "full_create_issue"] /\ UNCHANGED handleErr
    /\ UNCHANGED <<issues, writes>>
    /\ UNCHANGED issueRaceFrame

\* createSecurityIssue of call c: client.Issues.Create
RaceCreateIssue(c) ==
    /\ pc[c] = "full_create_issue"
    /\ writes' = writes + 1
    /\ \E ok \in BOOLEAN, order \in Orders(RuleGroupKeys(allFindings)) :
          LET body == buildIssueBody(allFindings, order) IN
          /\ calls' = Append(calls, CallBy(c, IssuesCreateCall(body, ok)))
          /\ IF ~ok
             THEN RaceReturn(c, Wrap(ErrCreateIssue, ApiError)) /\ UNCHANGED issues
             ELSE /\ issues' = << [title |-> IssueTitle, labels |-> {IssueLabel},
                                    body |-> body] >> \o issues
                  /\ RaceReturn(c, NoError)
    /\ UNCHANGED issueRaceFrame

IssueRaceNext ==
    \E c \in ConcurrentCalls :
        \/ RaceFindExistingSecurityIssue(c)
        \/ RaceCreateIssue(c)

IssueRaceSpec == IssueRaceInit /\ [][IssueRaceNext]_vars

-----------------------------------------------------------------------------
(* Properties of the commit orchestrator and of the event filter *)

Terminal == {"DONE", "ERRORED", "ABORT"}

\* scanCommit has returned for commit i
Returned(i) == commitRec[i].state \in Terminal

\* scanCommit is between createCheckRun and its return
Scanning == pc \in {"diff_parent", "diff_empty", "update_error", "scan_files"}

\* the handlers that scan commit by commit
Scanners == {"secret", "commit", "commit_legacy"}

\* calls holds the calls of a scanCommit
InScanCommitLog == handler \in Scanners /\ calls # <<>>

\* the commit whose calls are in calls
LoggedCommit == CHOOSE i \in DOMAIN commitRec : commitRec[i].commit = calls[1].sha

\* the check run of commit i
CheckRunOf(i) == checkRuns[commitRec[i].checkRun]

\* a push of at least one commit to a branch
BranchPush(ev) == Len(ev.commits) >= 1 /\ HasPrefix(ev.ref, "refs/heads/")

\* C1 as stated: scanCommit never returns while the check run it created is still
\* in_progress, whatever calls succeed or fail.
C1_NeverReturnsInProgress ==
    \A i \in DOMAIN commitRec :
        (Returned(i) /\ commitRec[i].checkRun # 0)
            => CheckRunOf(i).status = StatusCompleted

\* C1, amended: every scanCommit that created a check run issues, as its last GitHub
\* call before it returns, exactly one UpdateCheckRun with status completed for that
\* check run, whatever compare and content calls failed; the check run is completed
\* exactly when that call succeeded and is left in_progress when it failed.
C1_CompletingUpdateBeforeReturn ==
    /\ \A i \in DOMAIN commitRec :
          (Returned(i) /\ commitRec[i].checkRun # 0) =>
              /\ commitRec[i].updates = 1
              /\ (CheckRunOf(i).status = StatusCompleted) <=> (commitRec[i].updateErr = NoError)
              /\ (CheckRunOf(i).status = StatusInProgress) <=> (commitRec[i].updateErr # NoError)
    /\ (InScanCommitLog /\ ~Scanning /\ calls[1].ok) =>
          LET u == calls[Len(calls)] IN
          /\ u.op = "UpdateCheckRun"
          /\ u.id = commitRec[LoggedCommit].checkRun
          /\ u.status = "completed"

\* C1 witness: one commit whose diff failed and whose check run was completed by the
\* error update, and one commit left in_progress by a failed results update
C1_Witness ==
    \E i, j \in DOMAIN commitRec :
        /\ commitRec[i].state = "ERRORED"
        /\ CheckRunOf(i).status = StatusCompleted
        /\ commitRec[j].state = "DONE"
        /\ commitRec[j].updateErr # NoError
        /\ CheckRunOf(j).status = StatusInProgress

\* the single update of a returned scanCommit is the error update after a failed diff
\* and the results update otherwise
UpdateMatchesState(i) ==
    LET ups == CallsOf(calls, "UpdateCheckRun") IN
    /\ Cardinality(ups) = 1
    /\ \A k \in ups :
          /\ commitRec[i].state = "ERRORED" => calls[k].title = CheckRunTitleError
          /\ commitRec[i].state = "DONE" =>
                calls[k].title \in {CheckRunTitleClean, CheckRunTitleSecrets}

C2_StatePart ==
    /\ \A i \in DOMAIN commitRec :
          /\ commitRec[i].state \in {"START", "SKIPPED", "PENDING"} \cup Terminal
          /\ commitRec[i].state \in {"DONE", "ERRORED"} =>
                commitRec[i].checkRun # 0 /\ commitRec[i].updates = 1
          /\ commitRec[i].state \in {"START", "SKIPPED", "ABORT"} =>
                commitRec[i].checkRun = 0 /\ commitRec[i].updates = 0
          /\ commitRec[i].state = "PENDING" =>
                commitRec[i].checkRun # 0 /\ CallsOf(calls, "UpdateCheckRun") = {}
    /\ (InScanCommitLog /\ ~Scanning /\ calls[1].ok) => UpdateMatchesState(LoggedCommit)

C2_StepPart ==
    \A i \in DOMAIN commitRec :
        /\ Returned(i) => commitRec'[i] = commitRec[i]
        /\ commitRec[i].state = "START" =>
              commitRec'[i].state \in {"START", "SKIPPED", "PENDING", "ABORT"}
        /\ commitRec[i].state = "SKIPPED" => commitRec'[i] = commitRec[i]
        /\ commitRec[i].state = "PENDING" => commitRec'[i].state \in {"PENDING", "DONE", "ERRORED"}

\* C2: every commit whose check run was created gets exactly one UpdateCheckRun call,
\* the error update or the results update and never both or none; the state of a commit
\* goes START, PENDING, then exactly one of DONE, ERRORED, ABORT, and a terminal state
\* is never left.
C2_ExactlyOneUpdate == []C2_StatePart /\ [][C2_StepPart]_vars

\* C2 witness: Handle has returned after one commit ended ERRORED and another DONE,
\* each with its single update
C2_Witness ==
    /\ pc = "done"
    /\ \E i, j \in DOMAIN commitRec :
          /\ commitRec[i].state = "ERRORED" /\ commitRec[i].updates = 1
          /\ commitRec[j].state = "DONE" /\ commitRec[j].updates = 1

\* C3: when CreateCheckRun fails for a commit, scanCommit issues no further GitHub call
\* for that commit and returns an error; CompareCommits, GetContents and UpdateCheckRun
\* are only issued for a commit after CreateCheckRun succeeded for it.
C3_NoCallAfterFailedCreate ==
    /\ InScanCommitLog =>
          /\ calls[1].op = "CreateCheckRun"
          /\ \A k \in 2..Len(calls) :
                /\ calls[k].op \in {"CompareCommits", "GetContents", "UpdateCheckRun"}
                /\ calls[1].ok
                /\ calls[k].op = "CompareCommits" => calls[k].head = calls[1].sha
                /\ calls[k].op = "GetContents" => calls[k].ref = calls[1].sha
                /\ calls[k].op = "UpdateCheckRun" => calls[k].id = commitRec[LoggedCommit].checkRun
          /\ ~calls[1].ok =>
                /\ Len(calls) = 1
                /\ commitRec[LoggedCommit].state = "ABORT"
                /\ ~Scanning
    /\ \A i \in DOMAIN commitRec :
          commitRec[i].state = "ABORT" =>
              /\ commitRec[i].err # NoError
              /\ ErrContains(commitRec[i].err, "failed to create check run")
              /\ commitRec[i].checkRun = 0
              /\ commitRec[i].updates = 0

\* C3 witness: Handle has returned after the CreateCheckRun of its last commit failed
C3_Witness ==
    /\ pc = "done"
    /\ InScanCommitLog
    /\ calls = << CreateCheckRunCall(commitRec[Len(commitRec)].commit, FALSE) >>
    /\ commitRec[Len(commitRec)].state = "ABORT"

\* the loop of Handle has passed over commit i without scanning it
PassedOver(i) == commitRec[i].state = "SKIPPED"

\* C4: an error of scanCommit for one commit never keeps scanCommit from being started
\* for the later commits of the push: the loop visits the commits one by one whatever
\* scanCommit returned, so that when Handle returns from the loop scanCommit has run
\* for every commit the loop scans, and Handle returns no error.
C4_ErrorsIsolated ==
    (handler \in Scanners /\ commitRec # <<>>) =>
        /\ idx = Cardinality({i \in DOMAIN commitRec : Returned(i) \/ PassedOver(i)}) + 1
        /\ \A i \in DOMAIN commitRec : PassedOver(i) => SkipsCommit(i)
        /\ pc = "done" =>
              /\ \A i \in DOMAIN commitRec : ~SkipsCommit(i) => Returned(i)
              /\ handleErr = NoError

\* C4 witness: the first commit failed and the second one was scanned to the end
C4_Witness ==
    /\ pc = "done"
    /\ Len(commitRec) = 2
    /\ commitRec[1].err # NoError
    /\ commitRec[2].state = "DONE"
    /\ commitRec[2].err = NoError

\* scanCommit runs commit by commit, in the order of the event
SequentialInOrder ==
    /\ Len(commitRec) = Len(event.commits)
    /\ \A i \in DOMAIN commitRec :
          /\ commitRec[i].commit = event.commits[i].id
          /\ i < idx => Returned(i)
          /\ i > idx => commitRec[i].state = "START"
          /\ commitRec[i].checkRun # 0 => CheckRunOf(i).head_sha = event.commits[i].id
          /\ \A j \in DOMAIN commitRec :
                (i < j /\ commitRec[i].checkRun # 0 /\ commitRec[j].checkRun # 0)
                    => commitRec[i].checkRun < commitRec[j].checkRun
    /\ Len(checkRuns) = Cardinality({i \in DOMAIN commitRec : commitRec[i].checkRun # 0})
    /\ Scanning =>
          /\ idx \in DOMAIN commitRec
          /\ commitRec[idx].state = "PENDING"
          /\ calls[1].sha = event.commits[idx].id
    /\ (pc = "commit_loop" /\ idx \in DOMAIN commitRec) => commitRec[idx].state = "START"
    /\ calls # <<>> => \A i \in DOMAIN commitRec :
                          i > LoggedCommit => commitRec[i].state = "START"

\* C5: within one push the commit orchestrator runs scanCommit exactly once per commit,
\* one after the other in the order of the event: when CreateCheckRun is issued for
\* commit i+1, scanCommit has returned for commit i, at most one commit is being
\* scanned, and the check runs are created in commit order, each for its commit.
C5_OncePerCommitInOrder ==
    (handler \in Scanners /\ commitRec # <<>>) => SequentialInOrder

\* the same for the handlers that name a commit by its id: SecretScanHandler and the
\* refactored CommitHandler
SequentialInOrderByID ==
    (handler \in {"secret", "commit"} /\ commitRec # <<>>) => SequentialInOrder

\* C5 witness: the first version of CommitHandler has returned from a branch push
\* without scanning any of its commits, none of which carries a SHA
C5_Witness ==
    /\ handler = "commit_legacy"
    /\ pc = "done"
    /\ handleErr = NoError
    /\ Len(commitRec) = MaxCommits
    /\ \A i \in DOMAIN commitRec : PassedOver(i)
    /\ checkRuns = <<>>
    /\ writes = 0

OtherBranch(ev) == BranchPush(ev) /\ ev.ref # "refs/heads/" \o ev.defaultBranch

FullSkipped ==
    /\ pc = "done"
    /\ handleErr = NoError
    /\ LogMsgSkippingEvent \in logs \/ LogMsgSkippingNonDefault \in logs
    /\ LogMsgStartingFullScan \notin logs
    /\ calls = <<>>

\* C8: the skip decision of FullRepoScanHandler.Handle is calculateShouldSkip for every
\* ref, default branch and number of commits: the event goes on to the scan exactly
\* when it has commits, its ref starts with "refs/heads/" and the rest of the ref is
\* the default branch, compared as strings with their case.
C8_SkipDecisionIsCalculateShouldSkip ==
    (handler = "full" /\ event # NoEvent) =>
        /\ FullSkipped <=> calculateShouldSkip(event.ref, event.defaultBranch,
                                               Len(event.commits))
        /\ ~FullSkipped <=> /\ Len(event.commits) > 0
                            /\ HasPrefix(event.ref, "refs/heads/")
                            /\ event.ref = "refs/heads/" \o event.defaultBranch

\* C8 witness: a push to refs/heads/main is skipped when the default branch is Main
C8_Witness ==
    /\ handler = "full"
    /\ event # NoEvent
    /\ event.ref = "refs/heads/main"
    /\ event.defaultBranch = "Main"
    /\ Len(event.commits) > 0
    /\ FullSkipped
    /\ LogMsgSkippingNonDefault \in logs

\* C9: the diff of a commit is asked first as CompareCommits(sha~1, sha); only when
\* that fails there is exactly one more CompareCommits, with the empty tree as base;
\* when both fail the scan ends in an error containing "failed to get commit diff"
\* with no comparison and nothing scanned; the empty-tree comparison is never issued
\* when the parent comparison succeeded.
C9_DiffResolution ==
    /\ InScanCommitLog =>
          LET cmp == CallsOf(calls, "CompareCommits")
              sha == calls[1].sha
          IN  /\ cmp \subseteq {2, 3}
              /\ Len(calls) >= 2 =>
                    calls[2] = CompareCommitsCall(sha \o "~1", sha, calls[2].ok)
              /\ 3 \in cmp => ~calls[2].ok
              /\ (Len(calls) >= 3 /\ ~calls[2].ok) =>
                    calls[3] = CompareCommitsCall("4b825dc642cb6eb9a060e54bf8d69288fbee4904",
                                                  sha, calls[3].ok)
              /\ (Len(calls) = 2 /\ ~calls[2].ok) => pc = "diff_empty"
              /\ (3 \in cmp /\ ~calls[3].ok) =>
                    /\ comparison = <<>>
                    /\ allFindings = <<>>
                    /\ CallsOf(calls, "GetContents") = {}
                    /\ Len(calls) = 3 => pc = "update_error"
                    /\ ~Scanning =>
                          /\ commitRec[LoggedCommit].state = "ERRORED"
                          /\ ErrContains(commitRec[LoggedCommit].err,
                                         "failed to get commit diff")
              /\ commitRec[LoggedCommit].state = "ERRORED" => (3 \in cmp /\ ~calls[3].ok)
    /\ \A i \in DOMAIN commitRec :
          commitRec[i].state = "ERRORED" =>
              ErrContains(commitRec[i].err, "failed to get commit diff")

\* C9 witness: scanCommit has returned after both comparisons failed
C9_Witness ==
    /\ InScanCommitLog
    /\ Len(calls) = 4
    /\ calls[2].op = "CompareCommits" /\ ~calls[2].ok
    /\ calls[3].op = "CompareCommits" /\ ~calls[3].ok
    /\ calls[3].base = EmptyTreeSHA
    /\ commitRec[LoggedCommit].state = "ERRORED"

\* the GetContents calls for file f of the comparison
FetchesOf(f) ==
    { k \in CallsOf(calls, "GetContents") : calls[k].path = comparison[f].filename }

\* C10: the ceiling is inclusive: a file that is not removed and has exactly 1000
\* changes is fetched (and scanned when its content is there), a file with 1001
\* changes or more is never passed to GetContents and gives no finding.
C10_CeilingInclusive ==
    InScanCommitLog =>
        /\ \A f \in DOMAIN comparison :
              /\ (f < fileIdx /\ comparison[f].changes <= 1000
                    /\ comparison[f].status # "removed") => Cardinality(FetchesOf(f)) = 1
              /\ comparison[f].changes >= 1001 => FetchesOf(f) = {}
              /\ f >= fileIdx => FetchesOf(f) = {}
        /\ \A k \in CallsOf(calls, "GetContents") :
              \E f \in DOMAIN comparison : k \in FetchesOf(f)
        /\ filesScanned <= Cardinality({k \in CallsOf(calls, "GetContents") : calls[k].ok})
        /\ allFindings # <<>> => filesScanned > 0
        /\ (\A f \in DOMAIN comparison : comparison[f].changes >= 1001) =>
              /\ allFindings = <<>>
              /\ filesScanned = 0

\* C10 witness: a file of 1001 changes was passed over and a file of exactly 1000
\* changes was fetched and scanned, with findings
C10_Witness ==
    /\ pc = "scan_files"
    /\ Len(comparison) = 2
    /\ fileIdx = 3
    /\ comparison[1].changes = 1001 /\ comparison[1].status = "modified"
    /\ comparison[2].changes = 1000 /\ comparison[2].status = "modified"
    /\ FetchesOf(1) = {}
    /\ FetchesOf(2) # {}
    /\ filesScanned = 1
    /\ allFindings # <<>>

\* C11: in a commit scan GetContents is never called for a file whose status is
\* "removed", whatever its change count and whatever other files the comparison
\* holds: no GetContents call of the scan names a removed file.
C11_RemovedNeverFetched ==
    InScanCommitLog =>
        /\ \A f \in DOMAIN comparison :
              comparison[f].status = FileStatusRemoved => FetchesOf(f) = {}
        /\ \A k \in CallsOf(calls, "GetContents") :
              \A f \in DOMAIN comparison :
                  comparison[f].filename = calls[k].path =>
                      comparison[f].status # FileStatusRemoved

\* C11 witness: the loop has passed a removed file of 1000 changes without a fetch and
\* has fetched the modified file that follows it
C11_Witness ==
    /\ pc = "scan_files"
    /\ Len(comparison) = 2
    /\ fileIdx = 3
    /\ comparison[1].status = FileStatusRemoved /\ comparison[1].changes = MaxFileChanges
    /\ comparison[2].status = "modified" /\ comparison[2].changes = MaxFileChanges
    /\ FetchesOf(1) = {}
    /\ Cardinality(FetchesOf(2)) = 1

\* a GetContents call whose file the scan loop passed over
FailedFetch(c) == c.op = "GetContents" /\ (~c.ok \/ c.content = "")

\* a GetContents call whose content went to the detector
ScannedFetch(c) == c.op = "GetContents" /\ c.ok /\ c.content # ""

RECURSIVE FindingsOfLog(_)
\* the findings of the contents that went to the detector, in the order of the calls
FindingsOfLog(log) ==
    IF log = <<>> THEN <<>>
    ELSE (IF ScannedFetch(Head(log)) THEN DetectString(DetectorRules, Head(log).content)
          ELSE <<>>) \o FindingsOfLog(Tail(log))

\* the files of the comparison the loop has passed and that are not skipped unfetched
Fetchable(f) == f < fileIdx /\ ~shouldSkipFile(comparison[f])

\* C12: a file whose GetContents fails, whose content does not decode or is empty is
\* passed over without invoking the detector; the files after it are still fetched and
\* scanned; and the scan ends in the results update, never in the generic-error update
\* and never with the diff error (scanCommit returns an error only when the results
\* update call itself fails).
C12_PartialFailure ==
    (InScanCommitLog /\ calls[1].ok /\ pc \notin {"diff_parent", "diff_empty", "update_error"}
       /\ commitRec[LoggedCommit].state # "ERRORED") =>
        /\ \A f \in DOMAIN comparison : Fetchable(f) => Cardinality(FetchesOf(f)) = 1
        /\ filesScanned = Cardinality({k \in DOMAIN calls : ScannedFetch(calls[k])})
        /\ allFindings = FindingsOfLog(calls)
        /\ (\E k \in DOMAIN calls : FailedFetch(calls[k])) =>
              /\ commitRec[LoggedCommit].state \in {"PENDING", "DONE"}
              /\ \A k \in CallsOf(calls, "UpdateCheckRun") :
                    calls[k].title # CheckRunTitleError
              /\ ~ErrContains(commitRec[LoggedCommit].err, ErrGetCommitDiff)
              /\ commitRec[LoggedCommit].state = "DONE" =>
                    /\ Cardinality(CallsOf(calls, "UpdateCheckRun")) = 1
                    /\ calls[Len(calls)].op = "UpdateCheckRun"
                    /\ calls[Len(calls)].ok <=> commitRec[LoggedCommit].err = NoError

\* C12 witness: the fetch of the first file failed, the second file was fetched and
\* gave findings, and scanCommit returned no error after the results update
C12_Witness ==
    /\ InScanCommitLog
    /\ handler = "secret"
    /\ Len(comparison) = 2
    /\ commitRec[LoggedCommit].state = "DONE"
    /\ commitRec[LoggedCommit].err = NoError
    /\ \E k1, k2 \in DOMAIN calls :
          /\ k1 < k2
          /\ FailedFetch(calls[k1]) /\ calls[k1].path = comparison[1].filename
          /\ ScannedFetch(calls[k2]) /\ calls[k2].path = comparison[2].filename
    /\ filesScanned = 1
    /\ allFindings # <<>>
    /\ calls[Len(calls)].op = "UpdateCheckRun"
    /\ calls[Len(calls)].title = CheckRunTitleSecrets

-----------------------------------------------------------------------------
(* Properties of the reports: check-run output, ScanResult and issue body *)

\* the results updates in calls
ResultsUpdates ==
    { k \in CallsOf(calls, "UpdateCheckRun") : calls[k].title # CheckRunTitleError }

\* the distinct non-empty rule ids of the findings scanned
FoundRuleIDs == { allFindings[i].RuleID : i \in DOMAIN allFindings } \ {""}

\* the number of places where sub occurs in s
Occurrences(s, sub) ==
    Cardinality({ i \in 1..(Len(s) - Len(sub) + 1) : SubSeq(s, i, i + Len(sub) - 1) = sub })

\* C13: the results update of a check run has conclusion success, the clean title and
\* the clean summary if and only if the scan produced no finding; with one finding or
\* more it has conclusion failure and the secrets-detected title.
C13_ConclusionMatchesFindings ==
    \A k \in ResultsUpdates :
        /\ calls[k].status = StatusCompleted
        /\ (Len(allFindings) = 0) <=>
              (/\ calls[k].conclusion = ConclusionSuccess
               /\ calls[k].title = CheckRunTitleClean
               /\ calls[k].summary = CheckRunSummaryClean)
        /\ (Len(allFindings) >= 1) <=>
              (/\ calls[k].conclusion = ConclusionFailure
               /\ calls[k].title = CheckRunTitleSecrets)
        /\ calls[k].conclusion = ConclusionSuccess => calls[k].title = CheckRunTitleClean
        /\ calls[k].title = CheckRunTitleClean => calls[k].summary = CheckRunSummaryClean
        /\ calls[k].summary = CheckRunSummaryClean => calls[k].conclusion = ConclusionSuccess

\* C13 witness: CommitHandler has built the update for two findings without rule id,
\* and it concludes failure
C13_Witness ==
    /\ pc = "reported"
    /\ handler = "commit"
    /\ Len(allFindings) = 2
    /\ FoundRuleIDs = {}
    /\ ResultsUpdates # {}
    /\ \A k \in ResultsUpdates :
          calls[k].conclusion = ConclusionFailure /\ calls[k].title = CheckRunTitleSecrets

\* C14: with one finding or more, the summary of the results update holds the number of
\* findings (those without rule id included); it holds the "Types of secrets found"
\* section exactly when some finding has a non-empty rule id, and then each distinct
\* non-empty rule id is listed once, as "- " followed by the id, and nothing else is.
C14_SummaryCountAndTypes ==
    \A k \in ResultsUpdates :
        Len(allFindings) > 0 =>
            LET summary == calls[k].summary IN
            /\ Contains(summary, "**" \o ToString(Len(allFindings)) \o " secret(s) detected**")
            /\ Contains(summary, "Types of secrets found") <=> FoundRuleIDs # {}
            /\ \A r \in RuleIDs \ {""} :
                  Occurrences(summary, "- " \o r) = IF r \in FoundRuleIDs THEN 1 ELSE 0
            /\ Occurrences(summary, "- ") = Cardinality(FoundRuleIDs)

\* C14 witness: SecretScanHandler has built the update for a finding without rule id
\* and a finding of aws-access-key: the count is 2 and one type is listed
C14_Witness ==
    /\ pc = "reported"
    /\ handler = "secret"
    /\ Len(allFindings) = 2
    /\ FoundRuleIDs = {"aws-access-key"}
    /\ \E i \in DOMAIN allFindings : allFindings[i].RuleID = ""
    /\ \A k \in ResultsUpdates :
          /\ Contains(calls[k].summary, "**2 secret(s) detected**")
          /\ Contains(calls[k].summary, "- aws-access-key")
    /\ ResultsUpdates # {}

\* C15: buildScanResult(findings) has LeakCount = len(findings), HasLeaks = (LeakCount
\* > 0) and one LeakSummary entry "- " + rule id for each distinct non-empty rule id of
\* the findings: no duplicate, no entry for an empty rule id, and the findings without
\* rule id are counted in LeakCount.
C15_BuildScanResult ==
    ~scanResult.nil =>
        /\ scanResult.LeakCount = Len(allFindings)
        /\ scanResult.HasLeaks <=> (scanResult.LeakCount > 0)
        /\ Range(scanResult.LeakSummary) = { "- " \o r : r \in FoundRuleIDs }
        /\ Len(scanResult.LeakSummary) = Cardinality(FoundRuleIDs)

\* C15 witness: two findings of the same rule give a count of 2 and one summary entry
C15_Witness ==
    /\ pc = "reported"
    /\ ~scanResult.nil
    /\ Len(allFindings) = 2
    /\ allFindings[1].RuleID = "generic-api-key"
    /\ allFindings[2].RuleID = "generic-api-key"
    /\ scanResult.LeakCount = 2
    /\ scanResult.LeakSummary = << "- generic-api-key" >>

IssueBodies == { calls[k].body : k \in CallsOf(calls, "Issues.Create") }

\* the label a finding is counted under in the rule section
RuleLabel(f) == IF f.RuleID = "" THEN "unknown" ELSE f.RuleID

\* the labels of the findings reported
RuleLabels == { RuleLabel(allFindings[i]) : i \in DOMAIN allFindings }

\* the number of findings reported under label
CountOf(label) == Cardinality({ i \in DOMAIN allFindings : RuleLabel(allFindings[i]) = label })

RECURSIVE SumOfCounts(_)
SumOfCounts(labels) ==
    IF labels = {} THEN 0
    ELSE LET l == CHOOSE x \in labels : TRUE IN CountOf(l) + SumOfCounts(labels \ {l})

\* the place of a piece in body (0 when it is not there)
IndexOf(body, piece) ==
    IF \E i \in DOMAIN body : body[i] = piece
    THEN CHOOSE i \in DOMAIN body : body[i] = piece /\ \A j \in 1..(i - 1) : body[j] # piece
    ELSE 0

\* the lines of body between the title of the rule section and that of the file section
RuleSectionOf(body) ==
    SubSeq(body, IndexOf(body, RuleSectionTitle) + 1, IndexOf(body, FileSectionTitle) - 1)

\* the lines of body between the title of the file section and the footer
FileSectionOf(body) ==
    SubSeq(body, IndexOf(body, FileSectionTitle) + 1, IndexOf(body, IssueFooter[1]) - 1)

\* C17: buildIssueBody(findings) reports "Total findings" = len(findings), 0 for an
\* empty list, and its rule section holds exactly one line per distinct rule id, with
\* the number of findings of that rule, the findings without rule id being counted
\* under "unknown"; the counts of the lines add up to the total.
C17_TotalAndRuleCounts ==
    \A body \in IssueBodies :
        /\ Cardinality({ i \in DOMAIN body : HasPrefix(body[i], "**Total findings:**") }) = 1
        /\ \E i \in DOMAIN body :
              body[i] = "**Total findings:** " \o ToString(Len(allFindings)) \o "\n\n"
        /\ IndexOf(body, RuleSectionTitle) > 0
        /\ IndexOf(body, FileSectionTitle) > IndexOf(body, RuleSectionTitle)
        /\ Len(RuleSectionOf(body)) = Cardinality(RuleLabels)
        /\ \A l \in RuleLabels :
              Cardinality({ i \in DOMAIN RuleSectionOf(body) :
                  RuleSectionOf(body)[i] =
                      "- **" \o l \o "**: " \o ToString(CountOf(l)) \o " occurrence(s)\n" }) = 1
        /\ \A i \in DOMAIN RuleSectionOf(body) :
              \E l \in RuleLabels : HasPrefix(RuleSectionOf(body)[i], "- **" \o l \o "**: ")
        /\ SumOfCounts(RuleLabels) = Len(allFindings)

\* C17 witness: the body built for two findings without rule id has a total of 2 and
\* the single rule line of "unknown" with 2 occurrences
C17_Witness ==
    /\ pc = "reported"
    /\ handler = "full"
    /\ Len(allFindings) = 2
    /\ \A i \in DOMAIN allFindings : allFindings[i].RuleID = ""
    /\ \E body \in IssueBodies :
          /\ \E i \in DOMAIN body : body[i] = "**Total findings:** 2\n\n"
          /\ RuleSectionOf(body) = << "- **unknown**: 2 occurrence(s)\n" >>

\* the line of the file section for finding f
LocationLine(f) ==
    "- '" \o (IF f.File = "" THEN "unknown file" ELSE f.File) \o "' (line " \o
    ToString(f.StartLine) \o ")\n"

\* C18: buildIssueBody emits, in this order, the header, the total, the rule section,
\* the file-locations section and the recommended-actions footer, all of them also for
\* an empty list of findings; the file-locations section holds one line per finding,
\* in the order of the findings and not grouped by rule, with "unknown file" for an
\* empty path and the start line printed as it is, zero or negative included.
C18_SectionsAndLocations ==
    \A body \in IssueBodies :
        LET nRules == Cardinality(RuleLabels)
            n == Len(allFindings) IN
        /\ Len(body) = 3 + 1 + 1 + nRules + 1 + n + 10
        /\ SubSeq(body, 1, 3) = IssueHeader
        /\ HasPrefix(body[1], "## Security Alert: Secrets Detected")
        /\ HasPrefix(body[4], "**Total findings:**")
        /\ body[5] = "### Detected Secret Types\n\n"
        /\ \A i \in 1..nRules : HasPrefix(body[5 + i], "- **")
        /\ body[6 + nRules] = "\n### File Locations\n\n"
        /\ \A i \in 1..n : body[6 + nRules + i] = LocationLine(allFindings[i])
        /\ body[7 + nRules + n] = "\n### Recommended Actions\n\n"
        /\ SubSeq(body, 7 + nRules + n, Len(body)) = IssueFooter
        /\ FileSectionOf(body) = [i \in 1..n |-> LocationLine(allFindings[i])]

\* C18 witness: the body built for a finding of generic-api-key without path at line -1
\* followed by a finding of aws-access-key at line 0, the rule lines being in the
\* other order: the file lines keep the order of the findings
C18_Witness ==
    /\ pc = "reported"
    /\ handler = "full"
    /\ Len(allFindings) = 2
    /\ allFindings[1].RuleID = "generic-api-key" /\ allFindings[1].File = ""
    /\ allFindings[1].StartLine = -1
    /\ allFindings[2].RuleID = "aws-access-key" /\ allFindings[2].File = "main.go"
    /\ allFindings[2].StartLine = 0
    /\ \E body \in IssueBodies :
          /\ HasPrefix(RuleSectionOf(body)[1], "- **aws-access-key**")
          /\ FileSectionOf(body) = << "- 'unknown file' (line -1)\n", "- 'main.go' (line 0)\n" >>

\* the lists of findings that differ from f in the matched secrets at most
SecretVariants(f) ==
    { [i \in 1..Len(f) |-> [f[i] EXCEPT !.Secret = secret[i]]] :
        secret \in [1..Len(f) -> Secrets] }

\* the texts a call hands to GitHub
TextsOf(c) ==
    IF c.op = "Issues.Create" THEN {c.title} \cup Range(c.body)
    ELSE IF c.op = "UpdateCheckRun" THEN {c.title, c.summary, c.conclusion}
    ELSE {}

\* the texts of a report that are the same for all findings
FixedTexts ==
    Range(IssueHeader) \cup Range(IssueFooter) \cup
    {RuleSectionTitle, FileSectionTitle, IssueTitle, CheckRunTitleClean, CheckRunTitleSecrets,
     CheckRunSummaryClean, ConclusionSuccess, ConclusionFailure}

FixedTextsHoldNoSecret ==
    \A text \in FixedTexts : \A secret \in Secrets : ~Contains(text, secret)

\* C19: the check-run output and the issue body do not depend on the matched secret
\* text: a run whose findings agree with those of this run on rule id, file path and
\* start line, whatever their secrets, builds the same title, summary and conclusion
\* and the same issue body; and no text handed to GitHub holds a matched secret.
C19_OutputIndependentOfSecret ==
    pc = "reported" =>
        /\ \A g \in SecretVariants(allFindings) :
              IF handler = "full"
              THEN \E order \in Orders(RuleGroupKeys(g)) :
                      calls = << IssuesCreateCall(buildIssueBody(g, order), TRUE) >>
              ELSE \E order \in Orders(LeakTypes(g)) :
                      calls = ResultsUpdateCalls(ResultsOutput(g, order), TRUE)
        /\ FixedTextsHoldNoSecret
        /\ \A k \in DOMAIN calls :
              \A text \in TextsOf(calls[k]) \ FixedTexts : \A secret \in Secrets :
                  ~Contains(text, secret)

\* C19 witness: the issue body and the check-run output have been built for two
\* findings whose secrets differ
C19_Witness ==
    /\ pc = "reported"
    /\ Len(allFindings) = 2
    /\ allFindings[1].Secret # allFindings[2].Secret
    /\ Cardinality(SecretVariants(allFindings)) = 4
    /\ calls # <<>>
    /\ \A k \in DOMAIN calls : TextsOf(calls[k]) # {}

-----------------------------------------------------------------------------
(* Properties of createSecurityIssue *)

ListCalls == CallsOf(calls, "Issues.ListByRepo")
CreateCalls == CallsOf(calls, "Issues.Create")

\* the open issues as they were when the duplicate search ran: Issues.Create, when it
\* succeeds, puts the new issue in front
IssuesAtSearch ==
    IF \E k \in CreateCalls : calls[k].ok THEN Tail(issues) ELSE issues

\* what the duplicate search returns when it succeeds: the first page of the open
\* issues labelled "security"
SearchResult ==
    LET labelled == SelectSeq(IssuesAtSearch, LAMBDA i : IssueLabel \in i.labels)
    IN  SubSeq(labelled, 1, IF Len(labelled) < PerPage THEN Len(labelled) ELSE PerPage)

\* the search result holds an issue whose title is exactly the fixed title
DuplicateReturned ==
    \E i \in DOMAIN SearchResult :
        SearchResult[i].title = "GitGuard: Secrets Detected in Repository"

C20_StatePart ==
    handler = "full" =>
        /\ Cardinality(ListCalls) <= 1
        /\ Cardinality(CreateCalls) <= 1
        /\ CreateCalls # {} => ListCalls # {}
        /\ \A k \in ListCalls :
              /\ (calls[k].ok /\ DuplicateReturned) =>
                    /\ CreateCalls = {}
                    /\ pc = "done"
                    /\ handleErr = NoError
                    /\ writes = 0
              /\ (~calls[k].ok \/ ~DuplicateReturned) =>
                    \/ pc = "full_create_issue" /\ CreateCalls = {}
                    \/ pc = "done" /\ CreateCalls # {}

C20_StepPart ==
    (pc = "full_create_issue" /\ pc' # pc) =>
        /\ calls' = Append(calls, calls'[Len(calls')])
        /\ calls'[Len(calls')].op = "Issues.Create"
        /\ calls'[Len(calls')].title = "GitGuard: Secrets Detected in Repository"
        /\ writes' = writes + 1

\* C20: in createSecurityIssue, when the duplicate search succeeds and returns an open
\* issue whose title is exactly the fixed title, Issues.Create is not called and the
\* operation returns success; when the search returns an error (or no such issue),
\* Issues.Create is called.
C20_DedupOrCreate == []C20_StatePart /\ [][C20_StepPart]_vars

\* C20 witness: the search failed while the repository held the security issue, and a
\* second issue with the fixed title was created
C20_Witness ==
    /\ handler = "full"
    /\ pc = "done"
    /\ \E k \in ListCalls : ~calls[k].ok
    /\ \E k \in CreateCalls : calls[k].ok
    /\ Len(issues) = 3
    /\ issues[1].title = IssueTitle
    /\ issues[3].title = IssueTitle
    /\ handleErr = NoError

\* the search found the security issue: nothing is created, Handle returns no error
DedupWitness ==
    /\ handler = "full"
    /\ pc = "done"
    /\ \E k \in ListCalls : calls[k].ok
    /\ DuplicateReturned
    /\ CreateCalls = {}
    /\ allFindings # <<>>
    /\ handleErr = NoError

-----------------------------------------------------------------------------
(* Properties of the full-repository scan *)

\* the open issues of the list that carry the fixed title
FixedTitleCount(list) ==
    Cardinality({ i \in DOMAIN list : list[i].title = "GitGuard: Secrets Detected in Repository" })

\* C21: whenever the duplicate lookup of a full-repository scan succeeded, the
\* repository, which held at most one open issue with the fixed title before the scan,
\* holds at most one after it, however many other open issues labelled "security" it
\* has (more than 10 included).
C21_AtMostOneSecurityIssue ==
    (handler = "full" /\ \A k \in ListCalls : calls[k].ok) =>
        FixedTitleCount(issues) <= 1

\* C21 witness: the lookup succeeded in a repository whose security issue is older
\* than 10 other open issues labelled "security", and a second issue with the fixed
\* title was created
C21_Witness ==
    /\ handler = "full"
    /\ pc = "done"
    /\ handleErr = NoError
    /\ \E k \in ListCalls : calls[k].ok
    /\ \E k \in CreateCalls : calls[k].ok
    /\ Len(issues) = PerPage + 2
    /\ issues[1].title = IssueTitle
    /\ issues[PerPage + 2].title = IssueTitle
    /\ \A i \in 2..(PerPage + 1) : IssueLabel \in issues[i].labels

GetRepositoryCalls == CallsOf(calls, "Repositories.Get")
TokenCalls == CallsOf(calls, "Apps.CreateInstallationToken")
CloneCalls == CallsOf(calls, "git.CloneContext")

\* the scan began and Handle returned before scanGitRepository had returned findings
FailedBeforeReport ==
    /\ pc = "done"
    /\ "Starting full repository scan" \in logs
    /\ "Full repository scan completed" \notin logs

\* C22: a full-repository scan that fails at the repository fetch, the token, the clone
\* or the tree scan returns an error and writes nothing to GitHub (no Issues.Create
\* call, no issue, no check run); Issues.Create, the only write of the scan, is called
\* only after the repository fetch, the token, the clone and the tree scan succeeded,
\* in that order, and the scan returned findings.
C22_NoWriteOnFailedScan ==
    handler = "full" =>
        /\ writes = Cardinality(CreateCalls)
        /\ checkRuns = <<>>
        /\ \A c \in CreateCalls :
              /\ \E g \in GetRepositoryCalls, t \in TokenCalls, k \in CloneCalls :
                    /\ g < t /\ t < k /\ k < c
                    /\ calls[g].ok /\ calls[t].ok /\ calls[k].ok
              /\ "Full repository scan completed" \in logs
              /\ allFindings # <<>>
        /\ FailedBeforeReport =>
              /\ handleErr # NoError
              /\ writes = 0
              /\ CreateCalls = {}
              /\ ListCalls = {}
              /\ \A i \in DOMAIN issues : issues[i].body = <<>>

\* C22 witness: the tree scan failed on a file it could not read, in a repository that
\* holds open issues; Handle returned the scan error and no issue call was made
C22_Witness ==
    /\ handler = "full"
    /\ FailedBeforeReport
    /\ \E k \in CloneCalls : calls[k].ok
    /\ \E k \in DOMAIN calls : calls[k].op = "File.Contents" /\ ~calls[k].ok
    /\ handleErr[1] = "failed to scan repository"
    /\ issues = <<OtherIssue>>
    /\ writes = 0

\* C23: when the deadline of the full scan has passed during a step of
\* scanFullRepository (repository fetch, token, clone, tree scan, issue lookup, issue
\* creation), Handle returns the "repository scan timed out" error: not the error of
\* the step, and never success.
C23_DeadlineGivesTimeoutError ==
    (handler = "full" /\ pc = "done" /\ deadlineExceeded) =>
        handleErr = <<"repository scan timed out">>

\* C23 witness: the deadline passed before the clone, whose failure Handle returned as
\* the time-out error
C23_Witness ==
    /\ handler = "full"
    /\ pc = "done"
    /\ deadlineExceeded
    /\ \E k \in CloneCalls : ~calls[k].ok
    /\ handleErr = <<ErrScanTimeout>>

\* C24: the issue lookup and the issue creation that follow a completed tree scan are
\* not subject to the deadline of the full scan: once the deadline has passed, each of
\* them can still be made and succeed.
C24_IssueCallsNotTimed ==
    (handler = "full" /\ deadlineExceeded) =>
        /\ pc = "full_find_issue" =>
              ENABLED (FindExistingSecurityIssue /\ calls'[Len(calls')].ok)
        /\ pc = "full_create_issue" =>
              ENABLED (CreateIssue /\ calls'[Len(calls')].ok)

\* C24 witness: the tree scan completed with findings, the deadline passed, and both
\* issue calls failed; no issue was created and Handle returned the time-out error
C24_Witness ==
    /\ handler = "full"
    /\ pc = "done"
    /\ deadlineExceeded
    /\ LogMsgFullScanComplete \in logs
    /\ allFindings # <<>>
    /\ \E k \in ListCalls : ~calls[k].ok
    /\ \E k \in CreateCalls : ~calls[k].ok
    /\ issues = <<>>
    /\ handleErr = <<ErrScanTimeout>>

-----------------------------------------------------------------------------
(* Properties of the tree scan *)

\* the file is passed over by the tree scan, as the skip lists say
PassedOverInTree(file) ==
    \/ file.Size > 1000
    \/ LET lower == ToLower(file.Name)
       IN  \E i \in DOMAIN binaryExtensions : HasSuffix(lower, binaryExtensions[i])
    \/ \E i \in DOMAIN skipPaths : Contains(file.Name, skipPaths[i])

\* the files of the tree whose content cannot be read and that are not passed over
Unreadable ==
    { i \in DOMAIN gitRepo.files :
        ~PassedOverInTree(gitRepo.files[i]) /\ gitRepo.files[i].contents.err # NoError }

\* the first of them
FirstUnreadable == CHOOSE i \in Unreadable : \A j \in Unreadable : i <= j

\* the contents read by the tree scan, in order
ContentReads == SelectSeq(calls, LAMBDA c : c.op = "File.Contents")

\* the tree scan has run
TreeScanned == handler = "full" /\ gitRepo.head /\ pc # "full_scan"

PathsRead == { ContentReads[k].path : k \in DOMAIN ContentReads }

\* the files the walk came to before it ended
Walked ==
    IF Unreadable = {} THEN DOMAIN gitRepo.files ELSE 1..FirstUnreadable

\* C26: FullRepoScanHandler.shouldSkipFile agrees with shouldSkipFileLogic of the tests
\* for every file of the tree: a file is passed over iff its size is above
\* MaxFileChanges (a file of exactly that size is not), or its lower-cased name ends
\* with a binary extension, or its name holds a skip path in the same case
\* ("IMAGE.JPG" is passed over, "Node_Modules/x.js" is not); the content of a file
\* that is passed over is never read and never given to the detector, and every other
\* file the walk comes to is read.
C26_SkipAgreesWithReference ==
    handler = "full" =>
        \A i \in DOMAIN gitRepo.files :
            LET file == gitRepo.files[i]
                skipped == shouldSkipFileLogic(file.Name, file.Size)
            IN  /\ fullShouldSkipFile(file) <=> skipped
                /\ skipped <=> PassedOverInTree(file)
                /\ file.Size = 1001 => skipped
                /\ file.Name = "IMAGE.JPG" => skipped
                /\ (file.Name \in {"Node_Modules/x.js", "main.go"} /\ file.Size = 1000)
                      => ~skipped
                /\ (file.Name = "src/node_modules/x.js") => skipped
                /\ skipped =>
                      /\ file.Name \notin PathsRead
                      /\ \A k \in DOMAIN allFindings : allFindings[k].File # file.Name
                /\ (TreeScanned /\ ~skipped /\ i \in Walked) => file.Name \in PathsRead

\* C26 witness: IMAGE.JPG and Node_Modules/x.js hold the same secrets; only the second
\* was read, and the findings are its own
C26_Witness ==
    /\ TreeScanned
    /\ Len(gitRepo.files) = 2
    /\ gitRepo.files[1] = TreeFile("IMAGE.JPG", MaxFileChanges, NoError, "leaky")
    /\ gitRepo.files[2] = TreeFile("Node_Modules/x.js", MaxFileChanges, NoError, "leaky")
    /\ PathsRead = {"Node_Modules/x.js"}
    /\ Len(allFindings) = 2
    /\ \A k \in DOMAIN allFindings : allFindings[k].File = "Node_Modules/x.js"

-----------------------------------------------------------------------------
(* No retry of a GitHub write *)

\* the write calls scanCommit made for commit i: CreateCheckRun, then the update
WriteAttempts(i) ==
    IF commitRec[i].state \in {"START", "SKIPPED"} THEN 0 ELSE 1 + commitRec[i].updates

\* the commit the calls of the log were made for
ScannedInLog(i) ==
    /\ calls # <<>>
    /\ calls[1].op = "CreateCheckRun"
    /\ calls[1].sha = commitRec[i].commit

\* C27: no GitHub write is retried. Within one delivery scanCommit calls CreateCheckRun
\* at most once per commit and UpdateCheckRun at most once per check run, the full
\* scan calls Issues.Create at most once, and a results update that fails is the last
\* call scanCommit makes: it returns the "failed to update check run" error.
C27_NoWriteRetried ==
    /\ Cardinality(CallsOf(calls, "CreateCheckRun")) <= 1
    /\ Cardinality(CallsOf(calls, "UpdateCheckRun")) <= 1
    /\ Cardinality(CallsOf(calls, "Issues.Create")) <= 1
    /\ handler = "full" => writes = Cardinality(CallsOf(calls, "Issues.Create"))
    /\ handler \in {"secret", "commit", "commit_legacy"} =>
          /\ \A i \in DOMAIN commitRec : commitRec[i].updates <= 1
          /\ LET total[i \in 0..Len(commitRec)] ==
                      IF i = 0 THEN 0 ELSE total[i - 1] + WriteAttempts(i)
             IN  writes = total[Len(commitRec)]
          /\ Len(checkRuns) <= Len(commitRec)
          /\ \A k \in CallsOf(calls, "UpdateCheckRun") :
                ~calls[k].ok =>
                    /\ k = Len(calls)
                    /\ calls[k].title # "GitGuard Secret Scan - Error" =>
                          \A i \in DOMAIN commitRec : ScannedInLog(i) =>
                              /\ commitRec[i].state = "DONE"
                              /\ commitRec[i].updates = 1
                              /\ commitRec[i].err # NoError
                              /\ handler = "secret" =>
                                    commitRec[i].err = << "failed to update check run",
                                                          "api error" >>
                              /\ checkRuns[commitRec[i].checkRun].status = "in_progress"

\* C27 witness: the results update of the first commit failed and was not repeated;
\* Handle went on to the second commit and returned after two creations and two updates
C27_Witness ==
    /\ handler = "secret"
    /\ pc = "done"
    /\ Len(commitRec) = 2
    /\ commitRec[1].state = "DONE"
    /\ commitRec[1].err = Wrap(ErrUpdateCheckRun, ApiError)
    /\ commitRec[1].updates = 1
    /\ checkRuns[1].status = StatusInProgress
    /\ commitRec[2].state = "DONE"
    /\ commitRec[2].err = NoError
    /\ writes = 4

-----------------------------------------------------------------------------
(* Deliveries served at once *)

\* call c is about to write the field detector of the handler
WritesDetector(c) == pc[c] = "store"

\* call c is about to read the field detector of the handler
ReadsDetector(c) == pc[c] \in {"check", "scan"}

\* C28: two Handle calls that run at once on one handler instance share no mutable
\* state: no handler field, the lazily initialised detector in particular, is written
\* by one call while the other reads or writes it.
C28_NoSharedDetectorAccess ==
    \A c, d \in ConcurrentCalls :
        c # d => ~(WritesDetector(c) /\ (ReadsDetector(d) \/ WritesDetector(d)))

\* C28 witness: both calls found the detector nil and each is about to store its own
C28_Witness ==
    /\ \A c \in ConcurrentCalls : WritesDetector(c)
    /\ HandlerDetector = "nil"

-----------------------------------------------------------------------------
(* The dispatcher of the running program *)

\* the delivery is a push of at least one commit to the default branch
DefaultBranchDelivery ==
    /\ payload.valid
    /\ Len(payload.commits) >= 1
    /\ payload.ref = "refs/heads/" \o payload.defaultBranch

\* C29: for every push delivery with at least one commit to the default branch, the
\* running program has, when the delivery is done, run the full-repository scan once
\* besides the commit scans: the dispatcher hands push events to the commit
\* orchestrator and to the full-repository orchestrator.
C29_FullScanForDefaultBranchPush ==
    (pc = "done" /\ DefaultBranchDelivery) =>
        /\ "Starting full repository scan" \in logs
        /\ Cardinality(CallsOf(calls, "Repositories.Get")) = 1

\* C29 witness: SecretScanHandler has scanned every commit of a push to the default
\* branch and the delivery is done; no full scan was started
C29_Witness ==
    /\ pc = "done"
    /\ handler = "secret"
    /\ DefaultBranchDelivery
    /\ handleErr = NoError
    /\ Len(checkRuns) = Len(payload.commits)
    /\ \A i \in DOMAIN checkRuns : checkRuns[i].status = StatusCompleted
    /\ LogMsgStartingFullScan \notin logs
    /\ fullDetector = "nil"

-----------------------------------------------------------------------------
(* Eligibility skips *)

\* Handle is about to run on a well-formed push it does not take up: no commits, a ref
\* that is not a branch, or, for the full-repository handler, a branch other than the
\* default branch
IneligibleCall ==
    /\ pc \in {"secret_handle", "full_handle", "commit_handle"}
    /\ payload.valid
    /\ \/ Len(payload.commits) = 0
       \/ ~HasPrefix(payload.ref, "refs/heads/")
       \/ handler = "full" /\ payload.ref # "refs/heads/" \o payload.defaultBranch

\* the state of GitHub and what a scan leaves behind
GitHubState == <<calls, checkRuns, issues, writes, gitRepo, allFindings, commitRec>>

\* C30 as stated: a Handle call on a well-formed ineligible push returns success and
\* leaves the handler's state (its detector) and all GitHub state unchanged; it never
\* returns an error.
C30_SkipHasNoEffect ==
    [][IneligibleCall =>
          /\ pc' = "done"
          /\ handleErr' = NoError
          /\ UNCHANGED <<secretDetector, fullDetector>>
          /\ UNCHANGED GitHubState]_vars

\* C30 amended: a Handle call on a well-formed ineligible push returns at once, makes no
\* GitHub call and changes no GitHub state; it returns success unless the handler's
\* detector was nil and could not be built, and then that error is the failure to create
\* the gitleaks configuration; on success the detector of SecretScanHandler or
\* FullRepoScanHandler is initialised, and no other handler state changes.
C30_SkipInitialisesDetectorOnly ==
    [][IneligibleCall =>
          /\ pc' = "done"
          /\ UNCHANGED GitHubState
          /\ handleErr' \in {NoError, Wrap("failed to create gitleaks config", ApiError)}
          /\ handler \in {"commit", "commit_legacy"} =>
                handleErr' = NoError /\ UNCHANGED <<secretDetector, fullDetector>>
          /\ handler = "secret" =>
                /\ fullDetector' = fullDetector
                /\ secretDetector' = IF handleErr' = NoError THEN "set" ELSE "nil"
                /\ handleErr' # NoError => secretDetector = "nil"
          /\ handler = "full" =>
                /\ secretDetector' = secretDetector
                /\ fullDetector' = IF handleErr' = NoError THEN "set" ELSE "nil"
                /\ handleErr' # NoError => fullDetector = "nil"]_vars

\* C30 witness: FullRepoScanHandler has skipped a tag push that carries a commit; it
\* returned success, made no call, and its detector is now initialised
C30_Witness ==
    /\ pc = "done"
    /\ handler = "full"
    /\ payload.valid
    /\ payload.ref = "refs/tags/v1.0.0"
    /\ Len(payload.commits) = 1
    /\ handleErr = NoError
    /\ LogMsgSkippingEvent \in logs
    /\ calls = <<>>
    /\ writes = 0
    /\ fullDetector = "set"

-----------------------------------------------------------------------------
(* Termination and cancellation *)

\* the calls a step adds to the call log; createCheckRun starts the log of its commit
NewCalls ==
    IF calls' = calls THEN <<>>
    ELSE IF pc = "commit_loop" THEN calls'
    ELSE SubSeq(calls', Len(calls) + 1, Len(calls'))

\* the calls that leave the process: all but the reads of the in-memory tree
OutboundOps ==
    {"CreateCheckRun", "CompareCommits", "GetContents", "UpdateCheckRun",
     "Repositories.Get", "Apps.CreateInstallationToken", "git.CloneContext",
     "Issues.ListByRepo", "Issues.Create"}

\* C31: no Handle call blocks for ever: when every outbound call returns, a Handle call
\* that has begun returns; and once the request context is cancelled, every outbound call
\* made afterwards (compare, content fetch, check-run write, token, clone, issue call)
\* fails with the cancellation, and Handle returns.
C31_HandleTerminates ==
    /\ [][ctxCancelled =>
            \A i \in 1..Len(NewCalls) :
                NewCalls[i].op \in OutboundOps => ~NewCalls[i].ok]_vars
    /\ (pc # "idle") ~> (pc = "done")
    /\ ctxCancelled ~> (pc = "done")

\* C31 witness: the request was cancelled after the first commit of a push was scanned;
\* the check run of the second commit could not be created, and Handle has returned
C31_Witness ==
    /\ pc = "done"
    /\ ctxCancelled
    /\ handler = "secret"
    /\ Len(commitRec) = 2
    /\ commitRec[1].state = "DONE"
    /\ commitRec[1].err = NoError
    /\ commitRec[2].state = "ABORT"
    /\ calls = << CreateCheckRunCall(CommitSHA(2), FALSE) >>

-----------------------------------------------------------------------------
(* The order of the steps of the full-repository scan *)

\* the calls of scanFullRepository that leave the process, in the order of the code
StepOrder ==
    << "Repositories.Get", "Apps.CreateInstallationToken", "git.CloneContext",
       "Issues.ListByRepo", "Issues.Create" >>

\* the calls of the scan so far, without the reads of the cloned tree
ScanSteps == SelectSeq(calls, LAMBDA c : c.op # "File.Contents")

\* C32: the full-repository scan takes its steps in the order eligibility check,
\* repository fetch, token, clone, tree scan, duplicate lookup, issue creation; each step
\* is taken at most once for a delivery and only after every earlier step succeeded
\* (issue creation also follows a failed lookup), and a scan mints one installation token,
\* never a second one.
C32_FullScanStepOrder ==
    handler = "full" =>
        /\ Len(ScanSteps) <= Len(StepOrder)
        /\ \A i \in 1..Len(ScanSteps) : ScanSteps[i].op = StepOrder[i]
        /\ \A i \in 2..Len(ScanSteps) : ScanSteps[i - 1].ok \/ i = 5
        /\ Len(ScanSteps) >= 1 =>
              /\ event.valid
              /\ Len(event.commits) >= 1
              /\ event.ref = "refs/heads/" \o event.defaultBranch
              /\ "Starting full repository scan" \in logs
        /\ \A k \in 1..Len(calls) :
              calls[k].op = "File.Contents" =>
                  /\ k > 3
                  /\ calls[3].op = "git.CloneContext" /\ calls[3].ok
                  /\ \A j \in 1..(k - 1) :
                        calls[j].op \notin {"Issues.ListByRepo", "Issues.Create"}
        /\ pc = "full_scan" => Len(calls) = 3 /\ calls[3].ok
        /\ Len(ScanSteps) >= 4 =>
              /\ "Full repository scan completed" \in logs
              /\ allFindings # <<>>
        /\ Cardinality(CallsOf(calls, "Apps.CreateInstallationToken")) <= 1
        /\ (CallsOf(calls, "git.CloneContext") # {}) =>
              Cardinality(CallsOf(calls, "Apps.CreateInstallationToken")) = 1

\* C32 witness: a scan took every step: it read files of the clone, its duplicate lookup
\* failed, and it created the issue
C32_Witness ==
    /\ handler = "full"
    /\ pc = "done"
    /\ Len(ScanSteps) = 5
    /\ Len(calls) > 5
    /\ ~ScanSteps[4].ok
    /\ ScanSteps[5].ok
    /\ handleErr = NoError
    /\ Len(issues) = 1

-----------------------------------------------------------------------------
(* The two updates of a check run *)

\* scanCommit has returned for a commit whose check run was created
ScanCommitReturned ==
    /\ handler \in {"secret", "commit", "commit_legacy"}
    /\ pc \in {"commit_loop", "done"}
    /\ calls # <<>>
    /\ calls[1].op = "CreateCheckRun"
    /\ calls[1].ok

CompareCalls == CallsOf(calls, "CompareCommits")

\* the updates with the generic error output
ErrorUpdates ==
    { k \in CallsOf(calls, "UpdateCheckRun") : calls[k].title = "GitGuard Secret Scan - Error" }

\* C33: for a commit whose check run was created, the update with the generic error
\* output (completed, failure, the error title and summary) is issued if and only if both
\* comparisons failed, and scanCommit then returns an error; the update with the results
\* is issued if and only if one of the two comparisons succeeded, whatever happened to
\* the content fetches.
C33_ErrorUpdateIffNoDiff ==
    ScanCommitReturned =>
        LET bothFailed == /\ Cardinality(CompareCalls) = 2
                          /\ \A k \in CompareCalls : ~calls[k].ok
            oneSucceeded == \E k \in CompareCalls : calls[k].ok
        IN  /\ (ErrorUpdates # {}) <=> bothFailed
            /\ (ResultsUpdates # {}) <=> oneSucceeded
            /\ bothFailed # oneSucceeded
            /\ Cardinality(CallsOf(calls, "UpdateCheckRun")) = 1
            /\ \A k \in ErrorUpdates :
                  /\ calls[k].status = "completed"
                  /\ calls[k].conclusion = "failure"
                  /\ calls[k].summary = CheckRunSummaryError
            /\ bothFailed =>
                  /\ commitRec[idx - 1].state = "ERRORED"
                  /\ commitRec[idx - 1].err # NoError
            /\ oneSucceeded => commitRec[idx - 1].state = "DONE"

\* C33 witness: the comparison with the parent failed, the one with the empty tree
\* succeeded, the content of a file could not be fetched, and the results were written
C33_Witness ==
    /\ ScanCommitReturned
    /\ Cardinality(CompareCalls) = 2
    /\ \E k \in CompareCalls : ~calls[k].ok
    /\ \E k \in CallsOf(calls, "GetContents") : ~calls[k].ok
    /\ ResultsUpdates # {}
    /\ ErrorUpdates = {}

-----------------------------------------------------------------------------
(* The issue of a full-repository scan *)

\* the tree scan of the delivery returned without error and without findings
NothingFound ==
    /\ "Full repository scan completed" \in logs
    /\ allFindings = <<>>

\* C34: a full-repository scan opens an issue only if it has findings: when the tree scan
\* returns no finding, the scan neither looks for an open issue nor calls Issues.Create,
\* and Handle returns success; an issue that is created carries the fixed title, the
\* body built from the findings and the one label "security".
C34_IssueOnlyWithFindings ==
    handler = "full" =>
        /\ NothingFound =>
              /\ CallsOf(calls, "Issues.ListByRepo") = {}
              /\ CallsOf(calls, "Issues.Create") = {}
              /\ pc = "done"
              /\ handleErr = NoError
        /\ (CallsOf(calls, "Issues.ListByRepo") \cup CallsOf(calls, "Issues.Create")) # {} =>
              Len(allFindings) > 0
        /\ \A k \in CallsOf(calls, "Issues.Create") :
              /\ calls[k].title = "GitGuard: Secrets Detected in Repository"
              /\ calls[k].labels = {"security"}
              /\ \E order \in Orders(RuleGroupKeys(allFindings)) :
                    calls[k].body = buildIssueBody(allFindings, order)
              /\ calls[k].ok =>
                    /\ issues[1].title = calls[k].title
                    /\ issues[1].labels = {"security"}
                    /\ issues[1].body = calls[k].body

\* C34 witness: a scan read a file of the clone, found nothing, and returned success
\* without an issue call
C34_Witness ==
    /\ handler = "full"
    /\ pc = "done"
    /\ NothingFound
    /\ \E k \in 1..Len(calls) : calls[k].op = "File.Contents" /\ calls[k].ok
    /\ handleErr = NoError

-----------------------------------------------------------------------------
(* Concurrent full-repository scans *)

\* C35: two full-repository scans of one repository that run at the same time, both with
\* findings and both with a succeeding lookup, never leave two open issues with the
\* fixed title: the lookup and the creation of one scan do not interleave with those of
\* the other so that both create an issue.
C35_NoTwoIssuesFromConcurrentScans ==
    (\A k \in CallsOf(calls, "Issues.ListByRepo") : calls[k].ok) =>
        FixedTitleCount(issues) <= 1

\* C35 witness: both scans looked the issue up before either created it; both lookups
\* succeeded and found nothing, both creations succeeded, and both calls returned nil
C35_Witness ==
    /\ \A c \in ConcurrentCalls : pc[c] = "done" /\ handleErr[c] = NoError
    /\ Len(calls) = 4
    /\ calls[1].op = "Issues.ListByRepo" /\ calls[1].ok
    /\ calls[2].op = "Issues.ListByRepo" /\ calls[2].ok
    /\ calls[1].by # calls[2].by
    /\ calls[3].op = "Issues.Create" /\ calls[3].ok
    /\ calls[4].op = "Issues.Create" /\ calls[4].ok
    /\ FixedTitleCount(issues) = 2

-----------------------------------------------------------------------------
(* The time-out error of the full-repository scan *)

\* what scanFullRepository returned, read off the steps it took: the error of the step
\* that failed, or no error
ScanError ==
    LET n == Len(ScanSteps)
        last == ScanSteps[n]
    IN  CASE n = 1 /\ ~last.ok -> <<"failed to get default branch">> \o ApiError
          [] n = 1 /\ last.ok  -> <<"invalid clone URL">>
          [] n = 2 /\ ~last.ok -> <<"failed to get installation token",
                                     "failed to create installation token">> \o ApiError
          [] n = 3 /\ ~last.ok -> <<"failed to clone repository">> \o ApiError
          [] n = 3 /\ last.ok  ->
                 IF TreeScanOf[gitRepo].err # NoError
                 THEN <<"failed to scan repository">> \o TreeScanOf[gitRepo].err
                 ELSE NoError
          [] n = 5 /\ ~last.ok -> <<"failed to create issue">> \o ApiError
          [] OTHER -> NoError

\* C36: FullRepoScanHandler.Handle returns "repository scan timed out" only when
\* scanFullRepository returned an error and the deadline of the scan context had passed;
\* an error of scanFullRepository while the deadline has not passed is returned as it is
\* (the wrapped fetch, token, clone, scan or issue error), and a scan that returns no
\* error is never reported as timed out.
C36_TimeoutOnlyOnErrorPastDeadline ==
    (handler = "full" /\ pc = "done") =>
        IF Len(ScanSteps) = 0
        THEN handleErr # <<"repository scan timed out">>
        ELSE /\ (handleErr = <<"repository scan timed out">>) <=>
                    (ScanError # NoError /\ deadlineExceeded)
             /\ ~deadlineExceeded => handleErr = ScanError
             /\ ScanError = NoError => handleErr = NoError

\* C36 witness: the deadline passed during the scan, the tree scan then found secrets
\* and the lookup and the creation of the issue failed: Handle returned the time-out
C36_Witness ==
    /\ handler = "full"
    /\ pc = "done"
    /\ deadlineExceeded
    /\ Len(ScanSteps) = 5
    /\ ScanSteps[3].ok
    /\ ~ScanSteps[5].ok
    /\ handleErr = <<ErrScanTimeout>>

-----------------------------------------------------------------------------
(* The errors Handle of the commit handlers returns *)

\* C37: Handle of a commit handler returns an error only when the detector cannot be
\* initialised, the payload cannot be parsed or the installation client cannot be
\* created, and then before any commit is scanned; once the loop over the commits has
\* started Handle returns nil, whatever the scans of the commits returned, every commit
\* failing included.
C37_HandleErrorsOnlyBeforeLoop ==
    (handler \in {"secret", "commit", "commit_legacy"} /\ pc = "done") =>
        /\ handleErr \in
              { NoError,
                <<"failed to create gitleaks config">> \o ApiError,
                <<"failed to unmarshal push event">> \o ApiError,
                <<"failed to create GitHub client">> \o ApiError,
                <<"failed to create installation client">> \o ApiError }
        /\ handleErr # NoError =>
              /\ commitRec = <<>>
              /\ calls = <<>>
              /\ writes = 0
        /\ handleErr = <<"failed to create gitleaks config">> \o ApiError =>
              handler = "secret" /\ secretDetector = "nil"
        /\ handleErr = <<"failed to unmarshal push event">> \o ApiError => ~payload.valid
        /\ commitRec # <<>> => handleErr = NoError

\* C37 witness: the scan of each of the two commits of a push returned an error, and
\* Handle returned nil
C37_Witness ==
    /\ handler = "secret"
    /\ pc = "done"
    /\ Len(commitRec) = 2
    /\ \A i \in 1..2 : commitRec[i].err # NoError
    /\ commitRec[1].state = "ERRORED"
    /\ commitRec[2].state = "ABORT"
    /\ handleErr = NoError

-----------------------------------------------------------------------------
(* Independence of the commit scans of a push *)

\* the rule ids the findings of the logged commit name
LoggedRuleIDs ==
    { FindingsOfLog(calls)[i].RuleID : i \in 1..Len(FindingsOfLog(calls)) } \ {""}

\* the results written for the commit whose calls are in the log follow from the
\* contents fetched for that commit alone
ResultsFromOwnFiles ==
    InScanCommitLog =>
        \A k \in ResultsUpdates :
            /\ calls[k].id = commitRec[LoggedCommit].checkRun
            /\ calls[k].conclusion =
                  IF Len(FindingsOfLog(calls)) = 0 THEN "success" ELSE "failure"
            /\ \E order \in Orders(LoggedRuleIDs) :
                  calls[k].summary = ResultsOutput(FindingsOfLog(calls), order).summary
            /\ calls[k].ok =>
                  /\ CheckRunOf(LoggedCommit).head_sha = commitRec[LoggedCommit].commit
                  /\ CheckRunOf(LoggedCommit).conclusion = calls[k].conclusion

\* a step changes no check run but the one of the commit being scanned
OtherCheckRunsKept ==
    \A i \in DOMAIN checkRuns :
        /\ i \in DOMAIN checkRuns'
        /\ checkRuns'[i] # checkRuns[i] =>
              /\ i = checkRunID
              /\ i = commitRec[idx].checkRun
              /\ checkRuns'[i].head_sha = checkRuns[i].head_sha

\* C38: the commit scans of a push are independent in their results: the conclusion, the
\* leak count and the list of rule ids written to the check run of a commit follow from
\* the files returned for that commit alone, and no finding, failure or scan of another
\* commit of the push changes them.
C38_CommitScansIndependent ==
    /\ [](handler \in {"secret", "commit", "commit_legacy"} => ResultsFromOwnFiles)
    /\ [][(handler \in {"secret", "commit", "commit_legacy"}) => OtherCheckRunsKept]_vars

\* C38 witness: of the two commits of a push the first has secrets and the second has
\* none; the first check run says failure and the second success
C38_Witness ==
    /\ handler = "secret"
    /\ pc = "done"
    /\ Len(commitRec) = 2
    /\ Len(checkRuns) = 2
    /\ checkRuns[1].conclusion = "failure"
    /\ checkRuns[2].conclusion = "success"
    /\ \E k \in DOMAIN calls : ScannedFetch(calls[k])
    /\ FindingsOfLog(calls) = <<>>

-----------------------------------------------------------------------------
(* The superseded commit scan against the current one *)

\* the conclusion SecretScanHandler writes for the contents the logged commit fetched:
\* its detector has the default rules
CurrentConclusion ==
    IF \E k \in DOMAIN calls :
           ScannedFetch(calls[k]) /\ DetectString("default", calls[k].content) # <<>>
    THEN "failure"
    ELSE "success"

\* C39: the superseded and the current commit scan are observationally equivalent: for
\* the same push and the same outcomes of the GitHub calls, app.CommitHandler with
\* gitleaks.Detector.ScanCommit does for every commit what handler.SecretScanHandler
\* does: no commit of the event is passed over, and the results update of a commit
\* writes the status and the conclusion SecretScanHandler writes for the same fetches.
C39_SupersededMatchesCurrent ==
    handler \in {"commit", "commit_legacy"} =>
        /\ \A i \in DOMAIN commitRec : ~PassedOver(i)
        /\ InScanCommitLog =>
              \A k \in ResultsUpdates :
                  /\ calls[k].status = "completed"
                  /\ calls[k].conclusion = CurrentConclusion

\* C39 witness: CommitHandler fetched a file with two secrets, gave it to its detector
\* and completed the check run of the commit with success
C39_Witness ==
    /\ handler = "commit"
    /\ pc = "done"
    /\ \E k \in DOMAIN calls : ScannedFetch(calls[k]) /\ calls[k].content = "leaky"
    /\ CurrentConclusion = "failure"
    /\ \E k \in ResultsUpdates : calls[k].ok /\ calls[k].conclusion = "success"
    /\ CheckRunOf(LoggedCommit).conclusion = "success"

====
